---- MODULE Spec2Model ----
(***************************************************************************)
(* A model of sheepcount: the authenticated token / ETag codec             *)
(* (encoding.go), the batching ingestion pipeline (DatabaseWriter,         *)
(* handleEvent, SheepCount.Run with its state-saving goroutine), the       *)
(* rotating salts with user resolution and the retention sweep (Salts,     *)
(* dbInsertUser, dbDeleteExpired), the salts' read/write lock              *)
(* (fingerprintRequest, Salts.Rotate), and the location tree               *)
(* (dbInsertLocation).                                                     *)
(*                                                                         *)
(* Strings and byte slices are sequences of byte values (0..255); a Go     *)
(* string is the sequence of its bytes.                                    *)
(***************************************************************************)
EXTENDS Integers, Sequences, FiniteSets, TLC

VARIABLES
    \* ---- codec: one use of the codec by a caller ----
    cPhase,     \* "start" | "encoded" | "supplied" | "decoded" | "crashed"
    cEnc,       \* which encoder produced cStr: "none" | "token" | "etag"
    cDec,       \* which decoder ran: "none" | "token" | "etag"
    cKey,       \* the key ([]byte)
    cIdent,     \* the Identifier handed to the encoder
    cHash,      \* the JsHash handed to encodeETag
    cStr,       \* the encoded string as it is handed to the decoder
    cOrig,      \* the string exactly as the encoder returned it
    cRes,       \* the decoder's result
    \* ---- events: the posted payload, NewHit, the event column of hits ----
    evLast,     \* log: the last request to /event and its response
    evQ,        \* the Event of each Hit enqueued and not yet committed
    evRows,     \* the event column of the committed hits rows, in order
    evN,        \* number of requests made so far
    \* ---- ingestion pipeline: Run, handleEvent, DatabaseWriter ----
    hitC,       \* the inbound queue: make(chan Hit, 1024), oldest first
    hits,       \* the batcher's batch: hits := make([]Hit, 0, 16)
    bpc,        \* where the batcher goroutine is
    tickC,      \* ticker.C holds a tick not yet received (capacity 1)
    ctxDone,    \* DatabaseWriter's ctx is cancelled
    hitsCClosed,\* close(hitsC) was executed
    cpc,        \* where the committer goroutine is
    cbatch,     \* the batch the committer received and is committing
    db,         \* the committed rows of the database
    sent,       \* log: the batches sent on hitsC, with the reason of each send
    txlog,      \* log: the committer's transactions, with their outcome
    nextId,     \* number of Hits handleEvent has enqueued so far
    ticks,      \* number of ticks the ticker has delivered so far
    atCancel,   \* number of Hits enqueued when ctx was cancelled (-1 before)
    storageErr, \* the storage has returned an error to the committer
    scn,        \* the scenario the environment follows (never changes)
    runDone,    \* the ctx of Run's errgroup is cancelled
    saveLog,    \* log: where the pipeline was when State.Save ran
    hwait,      \* the handler at hits <- hit: its Hit's client, 0 when none is
    \* ---- identities: salts, rotation loop, users table ----
    uNow,       \* the clock, in model time units
    uUp,        \* the process is running
    salts,      \* sheepcount.state.Salts: Current, Previous, LastRotated
    saved,      \* the salts in the file sheepcount.state
    rotAt,      \* when the rotation goroutine's timer fires next
    rpc,        \* where the rotation goroutine is: "wait" | "sweep" | "returned"
    rotN,       \* number of Rotate() calls that succeeded so far
    users,      \* the users table: row i has user_id i
    handlers,   \* Hits built by handlers that have not sent them yet
    uq,         \* Hits sent and not yet resolved, oldest first
    uFp,        \* number of Hits fingerprinted so far
    uRes,       \* log: the last dbInsertUser call and its outcome
    uLast,      \* log: per client, its last committed Hit, and the fingerprint
                \* pairs of its Hits that made dbInsertUser insert a row
    uSweep,     \* log: the last dbDeleteExpired call
    uRot,       \* log: rotN after the last Rotate() of the rotation goroutine
    loopErr,    \* the error the rotation goroutine returned: "none" | "rotate" | "sweep"
    \* ---- the salts' lock: fingerprintRequest and Rotate, statement by statement ----
    smu,        \* Salts.RWMutex: w, the write lock is held; r, read locks held
    smem,       \* the fields of sheepcount.state.Salts as they are in memory
    srot,       \* the goroutine in Rotate(): pc, next (its new salt), n (rotations done)
    sfp,        \* per request in fingerprintRequest: pc and the salts its hashers were keyed with
    sepochs,    \* log: the (Current, Previous) pairs the salts held between rotations
    sout,       \* log: the salt pairs whose hashes fingerprintRequest returned
    ssave,      \* the goroutine in State.Save: pc and the salts it marshalled
    sio,        \* log: the I/O operations done, each with the salts lock its task held
    \* ---- locations: the locations table and dbInsertLocation ----
    locs,       \* the locations table: row i has location_id i
    lRes,       \* log: the last dbInsertLocation call and its outcome
    lPrev,      \* log: the call before the last
    lN,         \* number of dbInsertLocation calls made so far
    wlock,      \* the database's write lock: 0, or the writer that holds it
    wtx,        \* per writer: its transaction with one dbInsertLocation call
    geo         \* per client: the GeoIP record of its address

codecVars == <<cPhase, cEnc, cDec, cKey, cIdent, cHash, cStr, cOrig, cRes>>

eventVars == <<evLast, evQ, evRows, evN>>

pipeVars == <<hitC, hits, bpc, tickC, ctxDone, hitsCClosed, cpc, cbatch, db,
              sent, txlog, nextId, ticks, atCancel, storageErr, scn,
              runDone, saveLog, hwait>>

userVars == <<uNow, uUp, salts, saved, rotAt, rpc, rotN, users, handlers, uq,
              uFp, uRes, uLast, uSweep, uRot, loopErr>>

locVars == <<locs, lRes, lPrev, lN, wlock, wtx, geo>>

lockVars == <<smu, smem, srot, sfp, sepochs, sout, ssave, sio>>

storeVars == <<eventVars, userVars, locVars, lockVars>>

vars == <<cPhase, cEnc, cDec, cKey, cIdent, cHash, cStr, cOrig, cRes,
          evLast, evQ, evRows, evN,
          hitC, hits, bpc, tickC, ctxDone, hitsCClosed, cpc, cbatch, db,
          sent, txlog, nextId, ticks, atCancel, storageErr, scn,
          runDone, saveLog, hwait,
          uNow, uUp, salts, saved, rotAt, rpc, rotN, users, handlers, uq,
          uFp, uRes, uLast, uSweep, uRot, loopErr, locs, lRes, lPrev, lN, wlock, wtx, geo,
          smu, smem, srot, sfp, sepochs, sout, ssave, sio>>

----------------------------------------------------------------------------
(* Bounds of the codec's inputs. *)

\* identifiers are Ident(1) .. Ident(NumIdents)
NumIdents == 2
\* content hashes are Hash(1) .. Hash(NumHashes)
NumHashes == 1
\* a tampered byte is replaced by any byte value 0 .. MaxChar
MaxChar == 127

(* Bounds of the identity model. *)

\* the clock runs from 0 to MaxTime
MaxTime == 6
\* clients (remote address and hashed headers) sending Hits
UserClients == 1
\* Hits fingerprinted in a run
MaxUserHits == 3
\* handlers that hold a fingerprinted Hit and have not sent it yet
MaxHandlers == 2
\* Hits sent and not yet resolved
MaxPending == 1

(* Bounds of the event model. *)

\* requests to /event in a run
MaxEvents == 2
\* length of the string posted as event kind
MaxEventLen == 2

(* Bounds of the model of the salts' lock. *)

\* requests that can be inside fingerprintRequest at the same time
MaxReaders == 2
\* rotations in a run
MaxRotations == 2

(* Bounds of the location model: names are 1 .. the bound. *)

NumCountries == 2
NumSubdivisions == 1
NumCities == 1
NumPostals == 1
\* dbInsertLocation calls in a run
MaxLocCalls == 3
\* writers (committer goroutines of processes that share the database file)
NumWriters == 2

(* Bounds of the pipeline's environment. *)

\* Hits enqueued in a run with timer ticks and storage faults
MaxHits == 3
\* ticks the ticker delivers in such a run
MaxTicks == 2
\* clients (distinct fingerprints) the Hits of such a run come from
MaxClients == 2
\* in a burst of more than 256 Hits: Hits enqueued and not yet received
MaxQueued == 1

----------------------------------------------------------------------------
(* Byte-level helpers. *)

blakeSize128 == 16

\* golang.org/x/crypto/blake2b: New fails for a key longer than blake2b.Size
Blake2bMaxKey == 64

Min(a, b) == IF a < b THEN a ELSE b

\* s[lo:hi] of Go (0-based, hi exclusive) is SubSeq(s, lo+1, hi)
Slice(s, lo, hi) == SubSeq(s, lo + 1, hi)

HasPrefix(s, p) == Len(s) >= Len(p) /\ SubSeq(s, 1, Len(p)) = p

HasSuffix(s, p) == Len(s) >= Len(p) /\ SubSeq(s, Len(s) - Len(p) + 1, Len(s)) = p

\* The 16-byte keyed digest of msg (hasher.Write(msg); hasher.Sum(nil)).
\* BLAKE2b itself is not computed: the digest is modelled by a keyed checksum
\* that is, like the hash, a deterministic function of key and message with
\* blakeSize128 output bytes, and that tells apart any two messages of the
\* same length that differ in fewer than 16 consecutive bytes (byte j of the
\* message enters output byte ((j-1) % 16) + 1 with an odd weight).
Blake2bSum(key, msg) ==
    [i \in 1..blakeSize128 |->
        LET k == IF key = <<>> THEN 0 ELSE key[((i - 1) % Len(key)) + 1]
            a == IF i <= Len(msg) THEN msg[i] ELSE 0
            b == IF i + 16 <= Len(msg) THEN 3 * msg[i + 16] ELSE 0
        IN  (k + Len(key) + a + b + 7 * i) % 256]

\* blake2b.New(blakeSize128, key) returns an error for an oversized key, and
\* every caller in encoding.go panics on that error.
Blake2bNewFails(key) == Len(key) > Blake2bMaxKey

----------------------------------------------------------------------------
(* encoding/hex *)

\* hex.EncodeToString: lower-case digits
HexDigit(n) == IF n < 10 THEN 48 + n ELSE 87 + n

HexEncode(bytes) ==
    [i \in 1..(2 * Len(bytes)) |->
        LET b == bytes[(i + 1) \div 2]
        IN  IF i % 2 = 1 THEN HexDigit(b \div 16) ELSE HexDigit(b % 16)]

\* hex.fromHexChar: accepts 0-9, a-f and A-F; 255 stands for "not a digit"
FromHexChar(c) ==
    IF c >= 48 /\ c <= 57 THEN c - 48
    ELSE IF c >= 97 /\ c <= 102 THEN c - 87
    ELSE IF c >= 65 /\ c <= 70 THEN c - 55
    ELSE 255

\* hex.Decode on a source of even length: [ok, bytes]
HexDecode(src) ==
    LET n == Len(src) \div 2
        bad == \E i \in 1..(2 * n) : FromHexChar(src[i]) = 255
    IN  IF Len(src) % 2 = 1 \/ bad
        THEN [ok |-> FALSE, bytes |-> <<>>]
        ELSE [ok |-> TRUE,
              bytes |-> [i \in 1..n |->
                  16 * FromHexChar(src[2 * i - 1]) + FromHexChar(src[2 * i])]]

----------------------------------------------------------------------------
(* encoding/base64, StdEncoding: the standard alphabet, '=' padding, not    *)
(* strict (trailing padding bits are not checked, '\r' and '\n' are skipped) *)

B64Char(v) ==
    IF v < 26 THEN 65 + v
    ELSE IF v < 52 THEN 97 + (v - 26)
    ELSE IF v < 62 THEN 48 + (v - 52)
    ELSE IF v = 62 THEN 43
    ELSE 47

\* Encoding.decodeMap: 255 for a byte outside the alphabet
B64Val(c) ==
    IF c >= 65 /\ c <= 90 THEN c - 65
    ELSE IF c >= 97 /\ c <= 122 THEN c - 97 + 26
    ELSE IF c >= 48 /\ c <= 57 THEN c - 48 + 52
    ELSE IF c = 43 THEN 62
    ELSE IF c = 47 THEN 63
    ELSE 255

\* the characters of one group of 1, 2 or 3 bytes
B64Group(g) ==
    LET b1 == g[1]
        b2 == IF Len(g) >= 2 THEN g[2] ELSE 0
        b3 == IF Len(g) >= 3 THEN g[3] ELSE 0
        val == b1 * 65536 + b2 * 256 + b3
        c1 == B64Char(val \div 262144)
        c2 == B64Char((val \div 4096) % 64)
        c3 == B64Char((val \div 64) % 64)
        c4 == B64Char(val % 64)
    IN  IF Len(g) = 3 THEN <<c1, c2, c3, c4>>
        ELSE IF Len(g) = 2 THEN <<c1, c2, c3, 61>>
        ELSE <<c1, c2, 61, 61>>

\* base64.StdEncoding.EncodeToString
RECURSIVE B64Encode(_)
B64Encode(bytes) ==
    IF bytes = <<>> THEN <<>>
    ELSE IF Len(bytes) <= 3 THEN B64Group(bytes)
    ELSE B64Group(SubSeq(bytes, 1, 3)) \o B64Encode(SubSeq(bytes, 4, Len(bytes)))

\* the index reached from si by skipping '\n' and '\r' (si bytes are consumed)
RECURSIVE B64SkipNewlines(_, _)
B64SkipNewlines(src, si) ==
    IF si < Len(src) /\ src[si + 1] \in {10, 13}
    THEN B64SkipNewlines(src, si + 1)
    ELSE si

\* the end of decodeQuantum: dlen 6-bit values make dlen - 1 bytes
B64Emit(si, dbuf, err) ==
    LET d == [j \in 1..4 |-> IF j <= Len(dbuf) THEN dbuf[j] ELSE 0]
        val == d[1] * 262144 + d[2] * 4096 + d[3] * 64 + d[4]
        out == <<val \div 65536, (val \div 256) % 256, val % 256>>
    IN  [si |-> si, bytes |-> SubSeq(out, 1, Len(dbuf) - 1), err |-> err]

\* Encoding.decodeQuantum(dst, src, si): si bytes of src are consumed, dbuf
\* holds the 6-bit values read so far for this quantum
RECURSIVE B64Quantum(_, _, _)
B64Quantum(src, si, dbuf) ==
    LET j == Len(dbuf)
        fail == [si |-> si, bytes |-> <<>>, err |-> TRUE]
    IN  IF j = 4 THEN B64Emit(si, dbuf, FALSE)
        ELSE IF si = Len(src)
        THEN IF j = 0 THEN [si |-> si, bytes |-> <<>>, err |-> FALSE] ELSE fail
        ELSE LET in == src[si + 1] IN
            IF B64Val(in) # 255 THEN B64Quantum(src, si + 1, Append(dbuf, B64Val(in)))
            ELSE IF in \in {10, 13} THEN B64Quantum(src, si + 1, dbuf)
            ELSE IF in # 61 THEN fail
            ELSE IF j < 2 THEN fail
            ELSE IF j = 2
            THEN LET s2 == B64SkipNewlines(src, si + 1) IN
                 IF s2 = Len(src) THEN fail
                 ELSE IF src[s2 + 1] # 61 THEN fail
                 ELSE LET s3 == B64SkipNewlines(src, s2 + 1)
                      IN  B64Emit(s3, dbuf, s3 < Len(src))
            ELSE LET s3 == B64SkipNewlines(src, si + 1)
                 IN  B64Emit(s3, dbuf, s3 < Len(src))

\* Encoding.Decode: quantum after quantum until the source is consumed
RECURSIVE B64DecodeFrom(_, _, _)
B64DecodeFrom(src, si, acc) ==
    IF si >= Len(src) THEN [ok |-> TRUE, bytes |-> acc]
    ELSE LET q == B64Quantum(src, si, <<>>) IN
         IF q.err THEN [ok |-> FALSE, bytes |-> <<>>]
         ELSE B64DecodeFrom(src, q.si, acc \o q.bytes)

\* base64.StdEncoding.DecodeString: [ok, bytes]
B64Decode(src) == B64DecodeFrom(src, 0, <<>>)

----------------------------------------------------------------------------
(* encoding.go *)

\* what a call returns: kind is "ok" (nil error), "err" (non-nil error, err
\* says which) or "panic" (the goroutine panics)
Ok(ident, jsHash) == [kind |-> "ok", ident |-> ident, hash |-> jsHash, err |-> ""]

Err(why) == [kind |-> "err", ident |-> <<>>, hash |-> <<>>, err |-> why]

Panic(why) == [kind |-> "panic", ident |-> <<>>, hash |-> <<>>, err |-> why]

NoResult == [kind |-> "none", ident |-> <<>>, hash |-> <<>>, err |-> ""]

\* subtle.ConstantTimeCompare(x, y) == 1
ConstantTimeEqual(x, y) == Len(x) = Len(y) /\ x = y

\* validHMAC, for a key blake2b.New accepts
validHMAC(message, messageMAC, key) ==
    ConstantTimeEqual(messageMAC, Blake2bSum(key, message))

encodeETag_Unquoted(key, ident, jsHash) ==
    IF Blake2bNewFails(key) THEN Panic("blake2b: invalid key size")
    ELSE [kind |-> "ok", str |-> HexEncode(Blake2bSum(key, ident \o jsHash) \o ident \o jsHash)]

\* encodeETag: [kind, str]
encodeETag(key, ident, jsHash) ==
    IF Blake2bNewFails(key) THEN Panic("blake2b: invalid key size")
    ELSE LET payload == ident \o jsHash
             etag == Blake2bSum(key, payload) \o payload
         IN  [kind |-> "ok", str |-> <<34>> \o HexEncode(etag) \o <<34>>]

decodeETag(etag, key) ==
    IF ~(HasPrefix(etag, <<34>>) /\ HasSuffix(etag, <<34>>))
    THEN Err("etag is not quoted")
    ELSE IF 1 > Len(etag) - 1
    THEN Panic("slice bounds out of range [1:0]")
    ELSE LET et == Slice(etag, 1, Len(etag) - 1) IN
        IF Len(et) # 2 * 48 THEN Err("invalid length")
        ELSE LET dec == HexDecode(et) IN
            IF ~dec.ok THEN Err("invalid byte")
            ELSE LET decoded == dec.bytes IN
                IF Blake2bNewFails(key) THEN Panic("blake2b: invalid key size")
                ELSE IF ~validHMAC(Slice(decoded, 16, 48), Slice(decoded, 0, 16), key)
                THEN Err("HMAC failed")
                ELSE Ok(Slice(decoded, 16, 32), Slice(decoded, 32, 48))

\* encodeToken: [kind, str]
encodeToken(key, ident) ==
    IF Blake2bNewFails(key) THEN Panic("blake2b: invalid key size")
    ELSE [kind |-> "ok", str |-> B64Encode(Blake2bSum(key, ident) \o ident)]

decodeToken_MacSlice(token, key) ==
    LET dec == B64Decode(token) IN
    IF ~dec.ok THEN Err("illegal base64 data")
    ELSE IF Len(dec.bytes) # 32 THEN Err("invalid length")
    ELSE IF Blake2bNewFails(key) THEN Panic("blake2b: invalid key size")
    ELSE IF ~validHMAC(Slice(dec.bytes, 16, 32), Slice(dec.bytes, 0, 16), key)
    THEN Err("HMAC failed")
    ELSE Ok(Slice(dec.bytes, 0, 16), <<>>)

decodeToken(token, key) ==
    LET dec == B64Decode(token) IN
    IF ~dec.ok THEN Err("illegal base64 data")
    ELSE IF Len(dec.bytes) # 32 THEN Err("invalid length")
    ELSE IF Blake2bNewFails(key) THEN Panic("blake2b: invalid key size")
    ELSE IF ~validHMAC(Slice(dec.bytes, 16, 32), Slice(dec.bytes, 0, 16), key)
    THEN Err("HMAC failed")
    ELSE Ok(Slice(dec.bytes, 16, 32), <<>>)

----------------------------------------------------------------------------
(* The codec's callers: the inputs the checks range over. *)

\* []byte("VERY SECRET KEY"), the key of encoding_test.go
TestKey == <<86, 69, 82, 89, 32, 83, 69, 67, 82, 69, 84, 32, 75, 69, 89>>

\* a key of n bytes; main accepts any key file of at least 16 bytes
KeyOfLen(n) == [i \in 1..n |-> (11 * i) % 256]

Keys == {TestKey, KeyOfLen(Blake2bMaxKey), KeyOfLen(Blake2bMaxKey + 1)}

\* Identifier and JsHash are [16]byte
Ident(n) == [i \in 1..16 |-> (n + 37 * i) % 256]

Hash(n) == [i \in 1..16 |-> (101 * n + 59 * i) % 256]

\* strings a client may send that no encoder produced: the empty string, a
\* single quotation mark, two quotation marks, short and non-hex and
\* non-base64 strings, and strings of the right length with a wrong MAC
SuppliedInputs ==
    { <<>>, <<34>>, <<34, 34>>, <<65>>, <<61>>, <<65, 65, 65, 65>>,
      <<34, 103, 103, 34>>, <<34, 48, 48>>, <<42, 42, 42, 42>>,
      <<34>> \o [i \in 1..96 |-> 48] \o <<34>>,
      <<34>> \o [i \in 1..96 |-> 122] \o <<34>>,
      [i \in 1..95 |-> 48],
      [i \in 1..43 |-> 65] \o <<61>>,
      [i \in 1..44 |-> 65] }

CodecInit ==
    /\ cPhase = "start"
    /\ cEnc = "none"
    /\ cDec = "none"
    /\ cKey = <<>>
    /\ cIdent = <<>>
    /\ cHash = <<>>
    /\ cStr = <<>>
    /\ cOrig = <<>>
    /\ cRes = NoResult

\* a caller encodes a token (queries.go: Token: encodeToken(env.Key, ident))
CallEncodeToken ==
    /\ cPhase = "start"
    /\ \E k \in Keys, n \in 1..NumIdents :
        LET r == encodeToken(k, Ident(n)) IN
        /\ cKey' = k
        /\ cIdent' = Ident(n)
        /\ cEnc' = "token"
        /\ IF r.kind = "panic"
           THEN cPhase' = "crashed" /\ cRes' = r /\ UNCHANGED <<cStr, cOrig>>
           ELSE cPhase' = "encoded" /\ cStr' = r.str /\ cOrig' = r.str /\ UNCHANGED cRes
    /\ UNCHANGED <<cDec, cHash>>
    /\ UNCHANGED <<pipeVars, storeVars>>

\* a caller encodes an ETag (queries.go: encodeETag(env.Key, ident, jsHash))
CallEncodeETag ==
    /\ cPhase = "start"
    /\ \E k \in Keys, n \in 1..NumIdents, h \in 1..NumHashes :
        LET r == encodeETag(k, Ident(n), Hash(h)) IN
        /\ cKey' = k
        /\ cIdent' = Ident(n)
        /\ cHash' = Hash(h)
        /\ cEnc' = "etag"
        /\ IF r.kind = "panic"
           THEN cPhase' = "crashed" /\ cRes' = r /\ UNCHANGED <<cStr, cOrig>>
           ELSE cPhase' = "encoded" /\ cStr' = r.str /\ cOrig' = r.str /\ UNCHANGED cRes
    /\ UNCHANGED cDec
    /\ UNCHANGED <<pipeVars, storeVars>>

\* the client changes one byte of the encoded string before sending it back
Tamper ==
    /\ cPhase = "encoded"
    /\ cStr = cOrig
    /\ \E pos \in 1..Len(cStr), ch \in 0..MaxChar :
        /\ ch # cStr[pos]
        /\ cStr' = [cStr EXCEPT ![pos] = ch]
    /\ UNCHANGED <<cPhase, cEnc, cDec, cKey, cIdent, cHash, cOrig, cRes>>
    /\ UNCHANGED <<pipeVars, storeVars>>

\* the client sends a string no encoder produced
Supply ==
    /\ cPhase = "start"
    /\ \E s \in SuppliedInputs, k \in Keys :
        /\ cStr' = s
        /\ cKey' = k
    /\ cPhase' = "supplied"
    /\ UNCHANGED <<cEnc, cDec, cIdent, cHash, cOrig, cRes>>
    /\ UNCHANGED <<pipeVars, storeVars>>

\* the server decodes what it received as a token
CallDecodeToken ==
    /\ cPhase \in {"encoded", "supplied"}
    /\ cRes' = decodeToken(cStr, cKey)
    /\ cDec' = "token"
    /\ cPhase' = IF cRes'.kind = "panic" THEN "crashed" ELSE "decoded"
    /\ UNCHANGED <<cEnc, cKey, cIdent, cHash, cStr, cOrig>>
    /\ UNCHANGED <<pipeVars, storeVars>>

\* the server decodes the If-None-Match header (queries.go: decodeETag(etag, env.Key))
CallDecodeETag ==
    /\ cPhase \in {"encoded", "supplied"}
    /\ cRes' = decodeETag(cStr, cKey)
    /\ cDec' = "etag"
    /\ cPhase' = IF cRes'.kind = "panic" THEN "crashed" ELSE "decoded"
    /\ UNCHANGED <<cEnc, cKey, cIdent, cHash, cStr, cOrig>>
    /\ UNCHANGED <<pipeVars, storeVars>>

CodecNext ==
    \/ CallEncodeToken
    \/ CallEncodeETag
    \/ Tamper
    \/ Supply
    \/ CallDecodeToken
    \/ CallDecodeETag

----------------------------------------------------------------------------
(* Events: handleEvent decodes the posted JSON into an Event, NewHit builds *)
(* the Hit, and the committer writes Hit.Event to the event column of hits. *)
(* A string is the sequence of its bytes.                                   *)

\* PageLoad, PageView, PageHide: "l", "v", "h"
PageLoad == <<108>>
PageView == <<118>>
PageHide == <<104>>

\* the bytes the posted event kind is made of: l, v, h and x
EventChars == {108, 118, 104, 120}

EventStrings ==
    UNION {[1..n -> EventChars] : n \in 0..MaxEventLen}

\* the member "e" of the posted object: absent, null, a number or a string
EventMembers ==
    {[kind |-> k, str |-> <<>>] : k \in {"missing", "null", "number"}}
        \cup {[kind |-> "string", str |-> s] : s \in EventStrings}

\* json.Unmarshal(src, &event) into a string: null leaves event as it is,
\* a number is an error
UnmarshalString(member) ==
    IF member.kind = "string" THEN [ok |-> TRUE, str |-> member.str]
    ELSE IF member.kind = "null" THEN [ok |-> TRUE, str |-> <<>>]
    ELSE [ok |-> FALSE, str |-> <<>>]

\* EventType.UnmarshalJSON
EventUnmarshalJSON(member) ==
    LET u == UnmarshalString(member)
    IN  IF ~u.ok THEN [ok |-> FALSE, event |-> <<>>]
        ELSE IF Len(u.str) # 1 THEN [ok |-> FALSE, event |-> <<>>]
        ELSE IF u.str \in {PageLoad, PageView, PageHide}
        THEN [ok |-> TRUE, event |-> u.str]
        ELSE [ok |-> FALSE, event |-> <<>>]

\* json.NewDecoder(r.Body).Decode(&event), field Event: UnmarshalJSON is
\* called for a member that is present; an absent member leaves the field
\* at its zero value, the empty string
DecodeEvent(member) ==
    IF member.kind = "missing" THEN [ok |-> TRUE, event |-> <<>>]
    ELSE EventUnmarshalJSON(member)

\* the posted payloads: the member "e"; screen, what fromEvent finds in h, w
\* and p; rest, whether fingerprintRequest, fromRequest and
\* setPageAndReferrer all return nil
Payloads ==
    {[e |-> m, screen |-> s, rest |-> r] :
        m \in EventMembers,
        s \in {"ok", "height", "width", "ratio"},
        r \in BOOLEAN}

\* NewHit: the Hit's Event, or a bad-input error
NewHitEvent(payload) ==
    LET d == DecodeEvent(payload.e)
    IN  IF ~d.ok THEN [ok |-> FALSE, event |-> <<>>]
        ELSE IF ~payload.rest THEN [ok |-> FALSE, event |-> <<>>]
        ELSE IF payload.screen # "ok" THEN [ok |-> FALSE, event |-> <<>>]
        ELSE [ok |-> TRUE, event |-> d.event]

NoRequest ==
    [payload |-> [e |-> [kind |-> "missing", str |-> <<>>], screen |-> "ok",
                  rest |-> FALSE],
     status |-> 0, enqueued |-> FALSE]

EventInit ==
    /\ evLast = NoRequest
    /\ evQ = <<>>
    /\ evRows = <<>>
    /\ evN = 0

\* handleEvent for a POST: NewHit; on an error the status of the error (400
\* for bad input), else hits <- hit and 204
PostEvent ==
    /\ evN < MaxEvents
    /\ evN' = evN + 1
    /\ \E payload \in Payloads :
          LET r == NewHitEvent(payload)
          IN  /\ evQ' = IF r.ok THEN Append(evQ, r.event) ELSE evQ
              /\ evLast' = [payload |-> payload,
                            status |-> IF r.ok THEN 204 ELSE 400,
                            enqueued |-> r.ok]
    /\ UNCHANGED evRows
    /\ UNCHANGED <<codecVars, pipeVars, userVars, locVars, lockVars>>

\* dbInsertHit: INSERT INTO hits (..., event, ...) with sql.Named("event",
\* hit.Event); the column is TEXT NOT NULL and has no CHECK
CommitEvent ==
    /\ evQ # <<>>
    /\ evRows' = Append(evRows, Head(evQ))
    /\ evQ' = Tail(evQ)
    /\ UNCHANGED <<evLast, evN>>
    /\ UNCHANGED <<codecVars, pipeVars, userVars, locVars, lockVars>>

EventNext ==
    \/ PostEvent
    \/ CommitEvent

----------------------------------------------------------------------------
(* The ingestion pipeline: handleEvent enqueues Hits on the inbound queue, *)
(* DatabaseWriter's batcher goroutine batches them and its committer       *)
(* goroutine commits each batch in one transaction.                        *)

\* hits := make(chan Hit, 1024)
HitsCap == 1024

\* if len(hits) >= 256
FlushSize == 256

\* A Hit: id numbers the Hits in the order handleEvent enqueued them, ident
\* is the client's fingerprint (IdentifierCurrent).
Hit(n, c) == [id |-> n, ident |-> c]

\* What the environment does in a run. hits: Hits enqueued at most; ticks:
\* ticks delivered at most; clients: fingerprints in use; queued: a request
\* arrives only while fewer Hits than this wait on the inbound queue;
\* cancelFrom: Hits enqueued before the cancellation may fire; faults: the
\* storage may fail; late: the requests arrive once the batcher has returned
\* (before srv.Shutdown has closed the listener, or on a connection that is
\* open). The third scenario is a burst of such requests.
Scenarios ==
    { [hits |-> MaxHits, ticks |-> MaxTicks, clients |-> MaxClients,
       queued |-> HitsCap, cancelFrom |-> 0, faults |-> TRUE, late |-> FALSE],
      [hits |-> FlushSize + 1, ticks |-> 0, clients |-> 1,
       queued |-> MaxQueued, cancelFrom |-> FlushSize, faults |-> FALSE,
       late |-> FALSE],
      [hits |-> HitsCap + 1, ticks |-> 0, clients |-> 1,
       queued |-> HitsCap + 1, cancelFrom |-> 0, faults |-> FALSE,
       late |-> TRUE] }

EmptyDb == [hits |-> <<>>, users |-> {}]

\* State.Save has not run
NoSave == [done |-> FALSE, bpc |-> "select", cpc |-> "conn", uncommitted |-> 0]

PipeInitOf(sc) ==
    /\ scn = sc
    /\ hitC = <<>>
    /\ hits = <<>>
    /\ bpc = "select"
    /\ tickC = FALSE
    /\ ctxDone = FALSE
    /\ hitsCClosed = FALSE
    /\ cpc = "conn"
    /\ cbatch = <<>>
    /\ db = EmptyDb
    /\ sent = <<>>
    /\ txlog = <<>>
    /\ nextId = 0
    /\ ticks = 0
    /\ atCancel = -1
    /\ storageErr = FALSE
    /\ runDone = FALSE
    /\ saveLog = NoSave
    /\ hwait = 0

PipeInit == \E sc \in Scenarios : PipeInitOf(sc)

\* handleEvent up to its send: the request is a POST and NewHit accepted
\* it; the handler is at hits <- hit. One handler at a time is followed.
\* The environment sends the request when the scenario allows it.
HandlerBuilt ==
    /\ hwait = 0
    /\ nextId < scn.hits
    /\ Len(hitC) < scn.queued
    /\ scn.late => bpc = "done"
    /\ \E c \in 1..scn.clients : hwait' = c
    /\ UNCHANGED <<hitC, hits, bpc, tickC, ctxDone, hitsCClosed, cpc, cbatch, db,
                   sent, txlog, nextId, ticks, atCancel, storageErr, scn,
                   runDone, saveLog>>
    /\ UNCHANGED <<codecVars, storeVars>>

\* handleEvent: hits <- hit; w.WriteHeader(http.StatusNoContent). The send
\* completes when the queue has room; nothing else ends it.
handleEvent ==
    /\ hwait # 0
    /\ Len(hitC) < HitsCap
    /\ hitC' = Append(hitC, Hit(nextId + 1, hwait))
    /\ nextId' = nextId + 1
    /\ hwait' = 0
    /\ UNCHANGED <<hits, bpc, tickC, ctxDone, hitsCClosed, cpc, cbatch, db,
                   sent, txlog, ticks, atCancel, storageErr, scn,
                   runDone, saveLog>>
    /\ UNCHANGED <<codecVars, storeVars>>

\* Run's ctx is cancelled (a signal, or another goroutine of Run's errgroup
\* returned an error), and with it the ctx derived from it for DatabaseWriter
Cancel ==
    /\ ~ctxDone
    /\ nextId >= scn.cancelFrom
    /\ ctxDone' = TRUE
    /\ runDone' = TRUE
    /\ atCancel' = nextId
    /\ UNCHANGED <<hitC, hits, bpc, tickC, hitsCClosed, cpc, cbatch, db,
                   sent, txlog, nextId, ticks, storageErr, scn, saveLog,
                   hwait>>
    /\ UNCHANGED <<codecVars, storeVars>>

\* time.NewTicker(10 * time.Second) delivers a tick; a tick is dropped when
\* the previous one was not received yet
TickerFires ==
    /\ ticks < scn.ticks
    /\ bpc # "done"
    /\ tickC' = TRUE
    /\ ticks' = ticks + 1
    /\ UNCHANGED <<hitC, hits, bpc, ctxDone, hitsCClosed, cpc, cbatch, db,
                   sent, txlog, nextId, atCancel, storageErr, scn,
                   runDone, saveLog, hwait>>
    /\ UNCHANGED <<codecVars, storeVars>>

\* batcher, case <-ctx.Done(): send what is left, close(hitsC), return
BatcherCtxDone ==
    /\ bpc = "select"
    /\ ctxDone
    /\ IF Len(hits) > 0
       THEN bpc' = "sendDone" /\ UNCHANGED hitsCClosed
       ELSE bpc' = "done" /\ hitsCClosed' = TRUE
    /\ UNCHANGED <<hitC, hits, tickC, ctxDone, cpc, cbatch, db,
                   sent, txlog, nextId, ticks, atCancel, storageErr, scn,
                   runDone, saveLog, hwait>>
    /\ UNCHANGED <<codecVars, storeVars>>

BatcherTick_NoEmptyCheck ==
    /\ bpc = "select"
    /\ tickC
    /\ tickC' = FALSE
    /\ bpc' = "sendTick"
    /\ UNCHANGED <<hitC, hits, ctxDone, hitsCClosed, cpc, cbatch, db,
                   sent, txlog, nextId, ticks, atCancel, storageErr, scn,
                   runDone, saveLog, hwait>>
    /\ UNCHANGED <<codecVars, storeVars>>

\* batcher, case <-ticker.C: nothing for an empty batch, else send it
BatcherTick ==
    /\ bpc = "select"
    /\ tickC
    /\ tickC' = FALSE
    /\ bpc' = IF Len(hits) = 0 THEN "select" ELSE "sendTick"
    /\ UNCHANGED <<hitC, hits, ctxDone, hitsCClosed, cpc, cbatch, db,
                   sent, txlog, nextId, ticks, atCancel, storageErr, scn,
                   runDone, saveLog, hwait>>
    /\ UNCHANGED <<codecVars, storeVars>>

BatcherRecv_NoSizeFlush ==
    /\ bpc = "select"
    /\ hitC # <<>>
    /\ hits' = Append(hits, Head(hitC))
    /\ hitC' = Tail(hitC)
    /\ UNCHANGED <<bpc, tickC, ctxDone, hitsCClosed, cpc, cbatch, db,
                   sent, txlog, nextId, ticks, atCancel, storageErr, scn,
                   runDone, saveLog, hwait>>
    /\ UNCHANGED <<codecVars, storeVars>>

\* batcher, case hit := <-hitC: append, and send the batch once it is full
BatcherRecv ==
    /\ bpc = "select"
    /\ hitC # <<>>
    /\ hits' = Append(hits, Head(hitC))
    /\ hitC' = Tail(hitC)
    /\ bpc' = IF Len(hits') >= FlushSize THEN "sendFull" ELSE "select"
    /\ UNCHANGED <<tickC, ctxDone, hitsCClosed, cpc, cbatch, db,
                   sent, txlog, nextId, ticks, atCancel, storageErr, scn,
                   runDone, saveLog, hwait>>
    /\ UNCHANGED <<codecVars, storeVars>>

\* why the batcher is sending, by the send statement it is blocked in
SendReason == [sendDone |-> "shutdown", sendTick |-> "timer", sendFull |-> "size"]

\* the hand-off after which the batcher goes on with the batch it has sent
Handoff_KeepsBatch ==
    /\ bpc \in {"sendDone", "sendTick", "sendFull"}
    /\ cpc = "recv"
    /\ cbatch' = hits
    /\ cpc' = "tx"
    /\ sent' = Append(sent, [hits |-> hits, why |-> SendReason[bpc]])
    /\ bpc' = IF bpc = "sendDone" THEN "close" ELSE "select"
    /\ UNCHANGED <<hitC, hits, tickC, ctxDone, hitsCClosed, db,
                   txlog, nextId, ticks, atCancel, storageErr, scn,
                   runDone, saveLog, hwait>>
    /\ UNCHANGED <<codecVars, storeVars>>

\* hitsC <- hits meets the committer's range hitsC (hitsC is unbuffered):
\* the committer has the batch; after a timer or size send the batcher goes
\* on with hits = make([]Hit, 0, 16), after the shutdown send with close
Handoff ==
    /\ bpc \in {"sendDone", "sendTick", "sendFull"}
    /\ cpc = "recv"
    /\ cbatch' = hits
    /\ cpc' = "tx"
    /\ sent' = Append(sent, [hits |-> hits, why |-> SendReason[bpc]])
    /\ IF bpc = "sendDone"
       THEN bpc' = "close" /\ UNCHANGED hits
       ELSE bpc' = "select" /\ hits' = <<>>
    /\ UNCHANGED <<hitC, tickC, ctxDone, hitsCClosed, db,
                   txlog, nextId, ticks, atCancel, storageErr, scn,
                   runDone, saveLog, hwait>>
    /\ UNCHANGED <<codecVars, storeVars>>

\* batcher: close(hitsC); return ctx.Err()
BatcherClose ==
    /\ bpc = "close"
    /\ hitsCClosed' = TRUE
    /\ bpc' = "done"
    /\ UNCHANGED <<hitC, hits, tickC, ctxDone, cpc, cbatch, db,
                   sent, txlog, nextId, ticks, atCancel, storageErr, scn,
                   runDone, saveLog, hwait>>
    /\ UNCHANGED <<codecVars, storeVars>>

\* committer: conn, err := db.Conn(ctx). database/sql returns ctx.Err() when
\* ctx is already cancelled; otherwise the driver may fail to connect. The
\* committer returns the error and the errgroup cancels ctx.
CommitterConn ==
    /\ cpc = "conn"
    /\ \/ /\ ~ctxDone
          /\ cpc' = "recv"
          /\ UNCHANGED <<ctxDone, atCancel, storageErr>>
       \/ /\ ctxDone
          /\ cpc' = "failed"
          /\ UNCHANGED <<ctxDone, atCancel, storageErr>>
       \/ /\ ~ctxDone
          /\ scn.faults
          /\ cpc' = "failed"
          /\ storageErr' = TRUE
          /\ ctxDone' = TRUE
          /\ atCancel' = nextId
    /\ UNCHANGED <<hitC, hits, bpc, tickC, hitsCClosed, cbatch, db,
                   sent, txlog, nextId, ticks, scn,
                   runDone, saveLog, hwait>>
    /\ UNCHANGED <<codecVars, storeVars>>

\* dbInsertHit adding the hit row before the rows of the batch's earlier Hits
dbInsertHit_Prepend(d, hit) ==
    [hits |-> <<hit.id>> \o d.hits,
     users |-> IF hit.ident \in d.users THEN d.users ELSE d.users \cup {hit.ident}]

\* dbInsertHit: the rows one Hit adds to the transaction's view of the
\* database: dbInsertUser inserts a user row when no row holds the Hit's
\* identifier, then the hit row is inserted
dbInsertHit(d, hit) ==
    [hits |-> Append(d.hits, hit.id),
     users |-> IF hit.ident \in d.users THEN d.users ELSE d.users \cup {hit.ident}]

\* for _, hit := range hits { dbInsertHit(..., &hit) }: the Hits of the batch
\* in order. The batch is folded by halves and d is inspected first, so that
\* the evaluation stays shallow for a batch of FlushSize Hits.
RECURSIVE InsertHits(_, _)
InsertHits(d, batch) ==
    IF Len(d.hits) >= 0 /\ batch = <<>> THEN d
    ELSE IF Len(batch) = 1 THEN dbInsertHit(d, batch[1])
    ELSE LET half == Len(batch) \div 2
         IN  InsertHits(InsertHits(d, SubSeq(batch, 1, half)),
                        SubSeq(batch, half + 1, Len(batch)))

\* where a transaction can fail: BeginTx, "BEGIN IMMEDIATE", dbInsertHit of
\* the k-th Hit, tx.Commit; <<"none", 0>> is a transaction without fault
TxFaults(batch) ==
    {<<"none", 0>>, <<"begin", 0>>, <<"immediate", 0>>, <<"commit", 0>>}
        \cup {<<"insert", k>> : k \in 1..Len(batch)}

RunTx_PartialCommit(d, batch, fault) ==
    IF fault[1] = "none" THEN [ok |-> TRUE, db |-> InsertHits(d, batch)]
    ELSE IF fault[1] = "insert"
    THEN [ok |-> FALSE, db |-> InsertHits(d, SubSeq(batch, 1, fault[2] - 1))]
    ELSE [ok |-> FALSE, db |-> d]

\* the function literal of the committer's loop: one transaction for the
\* batch; any error returns before tx.Commit and the deferred tx.Rollback
\* discards every row written, a failed Commit writes nothing either
RunTx(d, batch, fault) ==
    IF fault[1] = "none" THEN [ok |-> TRUE, db |-> InsertHits(d, batch)]
    ELSE [ok |-> FALSE, db |-> d]

\* committer: the body of for hits := range hitsC; an error is logged
\* (log.Print) and the loop goes on. Every storage call is made with
\* context.Background(), so the cancellation of ctx does not make it fail.
CommitterTx ==
    /\ cpc = "tx"
    /\ \E fault \in TxFaults(cbatch) :
        /\ fault[1] # "none" => scn.faults
        /\ LET r == RunTx(db, cbatch, fault) IN
            /\ db' = r.db
            /\ txlog' = Append(txlog, [hits |-> cbatch, ok |-> r.ok])
            /\ storageErr' = (storageErr \/ ~r.ok)
    /\ cpc' = "recv"
    /\ cbatch' = <<>>
    /\ UNCHANGED <<hitC, hits, bpc, tickC, ctxDone, hitsCClosed,
                   sent, nextId, ticks, atCancel, scn,
                   runDone, saveLog, hwait>>
    /\ UNCHANGED <<codecVars, storeVars>>

\* committer: range hitsC ends when hitsC is closed; return nil
CommitterEnd ==
    /\ cpc = "recv"
    /\ hitsCClosed
    /\ cpc' = "done"
    /\ UNCHANGED <<hitC, hits, bpc, tickC, ctxDone, hitsCClosed, cbatch, db,
                   sent, txlog, nextId, ticks, atCancel, storageErr, scn,
                   runDone, saveLog, hwait>>
    /\ UNCHANGED <<codecVars, storeVars>>

\* return errgrp.Wait(): both goroutines have returned
WriterReturned == bpc = "done" /\ cpc \in {"done", "failed"}

\* Run, goroutine to persist state on exit: <-ctx.Done(), then
\* state.Save("sheepcount.state"). Run's ctx is done once it was cancelled
\* from outside or once DatabaseWriter returned (it always returns an
\* error, the batcher's ctx.Err()). uncommitted counts the Hits the batcher
\* has received that are in no finished transaction yet.
PersistState ==
    /\ ~saveLog.done
    /\ runDone \/ WriterReturned
    /\ saveLog' = [done |-> TRUE, bpc |-> bpc, cpc |-> cpc,
                   uncommitted |-> Len(hits) + Len(cbatch)]
    /\ UNCHANGED <<hitC, hits, bpc, tickC, ctxDone, hitsCClosed, cpc, cbatch, db,
                   sent, txlog, nextId, ticks, atCancel, storageErr, scn,
                   runDone, hwait>>
    /\ UNCHANGED <<codecVars, storeVars>>

\* a step of one of DatabaseWriter's two goroutines
WriterStep ==
    \/ BatcherCtxDone
    \/ BatcherTick
    \/ BatcherRecv
    \/ Handoff
    \/ BatcherClose
    \/ CommitterConn
    \/ CommitterTx
    \/ CommitterEnd

PipeNext ==
    \/ HandlerBuilt
    \/ handleEvent
    \/ Cancel
    \/ TickerFires
    \/ WriterStep
    \/ PersistState

----------------------------------------------------------------------------
(* Identities: the salts and their rotation (Salts.Load, Salts.Rotate, the *)
(* rotation goroutine of Run), fingerprintRequest, dbInsertUser and        *)
(* dbDeleteExpired. A salt is the number of the random draw that made it;  *)
(* a fingerprint, the keyed BLAKE2b-256 hash of the client's remote        *)
(* address and hashed headers, is the pair <<client, salt>>.               *)

\* Config.SaltRotationDuration (12 hours by default), in model time units
SaltRotationDuration == 2

\* users.identifier IS NULL
NullIdent == <<0, 0>>

\* hasher.Sum(nil) of a hasher keyed with salt that was fed the client's
\* remote address and headers
Fingerprint(client, salt) == <<client, salt>>

\* fingerprintRequest and NewHit: the Hit's IdentifierCurrent and
\* IdentifierPrevious, computed under the read lock from the salts s;
\* rots is the number of rotations that preceded
NewHit(client, s, n) ==
    [client |-> client,
     cur |-> Fingerprint(client, s.Current),
     prev |-> Fingerprint(client, s.Previous),
     rots |-> n]

\* the zero time.Time: LastRotated.IsZero()
ZeroTime == -1

\* the zero Salts of state := &State{}, when there is no state file
NoSalts == [Current |-> 0, Previous |-> 0, LastRotated |-> ZeroTime]

\* Salts.Rotate installing the new salt without shifting the current one
Rotate_NoShift(s, now) ==
    [Current |-> s.Current + 1, Previous |-> s.Previous, LastRotated |-> now]

\* Salts.Rotate: a fresh random salt becomes current, the current previous
Rotate(s, now) ==
    [Current |-> s.Current + 1, Previous |-> s.Current, LastRotated |-> now]

\* Salts.Load with LastRotated zero: two random salts, stamped now
FreshSalts(now) == [Current |-> 2, Previous |-> 1, LastRotated |-> now]

\* Salts.Load rotating whatever the age of the persisted salts
LoadSalts_AlwaysRotates(s, now) ==
    IF s.LastRotated = ZeroTime THEN FreshSalts(now) ELSE Rotate(s, now)

\* Salts.Load: without persisted salts generate both; persisted salts are
\* rotated once when they are at least one rotation duration old
LoadSalts(s, now) ==
    IF s.LastRotated = ZeroTime THEN FreshSalts(now)
    ELSE IF now - s.LastRotated >= SaltRotationDuration THEN Rotate(s, now)
    ELSE s

\* Run, rotation goroutine: when the first rotation is due. nextRotation > 0
\* waits for LastRotated + duration, otherwise the ticker is started at once
FirstRotation(s, now) ==
    IF s.LastRotated + SaltRotationDuration - now > 0
    THEN s.LastRotated + SaltRotationDuration
    ELSE now + SaltRotationDuration

\* SELECT user_id, identifier FROM users without its WHERE clause
UserMatches_AnyRow(us, curr, prev) == 1..Len(us)

\* the rows SELECT ... WHERE identifier = ? OR identifier = ? can return
UserMatches(us, curr, prev) ==
    {i \in 1..Len(us) : us[i].ident = curr \/ us[i].ident = prev}

UserResult(kind, uid, us) == [kind |-> kind, uid |-> uid, users |-> us]

\* dbInsertUser with the rollover branch inserting a new row
dbInsertUser_RolloverInserts(us, curr, prev, pick, now) ==
    IF pick = 0 \/ us[pick].ident # curr
    THEN UserResult("insert", Len(us) + 1,
                    Append(us, [ident |-> curr, first |-> now, last |-> now]))
    ELSE UserResult("seen", pick, [us EXCEPT ![pick].last = now])

\* dbInsertUser with the first sighting inserting the previous identifier
dbInsertUser_InsertsPrev(us, curr, prev, pick, now) ==
    IF pick = 0
    THEN UserResult("insert", Len(us) + 1,
                    Append(us, [ident |-> prev, first |-> now, last |-> now]))
    ELSE IF us[pick].ident = curr
    THEN UserResult("seen", pick, [us EXCEPT ![pick].last = now])
    ELSE UserResult("rollover", pick,
                    [us EXCEPT ![pick].ident = curr, ![pick].last = now])

\* dbInsertUser with the repeat sighting rewriting first_seen
dbInsertUser_SeenResetsFirst(us, curr, prev, pick, now) ==
    IF pick = 0
    THEN UserResult("insert", Len(us) + 1,
                    Append(us, [ident |-> curr, first |-> now, last |-> now]))
    ELSE IF us[pick].ident = curr
    THEN UserResult("seen", pick,
                    [us EXCEPT ![pick].last = now, ![pick].first = now])
    ELSE UserResult("rollover", pick,
                    [us EXCEPT ![pick].ident = curr, ![pick].last = now])

\* dbInsertUser: pick is the row the SELECT returned (0: sql.ErrNoRows).
\* The result is the kind of branch taken, the user_id and the table; an
\* UPDATE that would give two rows the same identifier fails on the UNIQUE
\* constraint of users.identifier and leaves the table as it was.
dbInsertUser(us, curr, prev, pick, now) ==
    IF pick = 0
    THEN UserResult("insert", Len(us) + 1,
                    Append(us, [ident |-> curr, first |-> now, last |-> now]))
    ELSE IF us[pick].ident = curr
    THEN UserResult("seen", pick, [us EXCEPT ![pick].last = now])
    ELSE IF us[pick].ident = prev
    THEN (IF \E j \in 1..Len(us) : j # pick /\ us[j].ident = curr
          THEN UserResult("err", pick, us)
          ELSE UserResult("rollover", pick,
                          [us EXCEPT ![pick].ident = curr, ![pick].last = now]))
    ELSE UserResult("panic", pick, us)

\* dbDeleteExpired with a non-strict comparison
dbDeleteExpired_NonStrict(us, deleteSince, now) ==
    [i \in 1..Len(us) |->
        IF us[i].ident # NullIdent /\ us[i].last + deleteSince <= now
        THEN [us[i] EXCEPT !.ident = NullIdent]
        ELSE us[i]]

\* dbDeleteExpired writing the time of the sweep to the rows it expires
dbDeleteExpired_TouchesLastSeen(us, deleteSince, now) ==
    [i \in 1..Len(us) |->
        IF us[i].ident # NullIdent /\ us[i].last + deleteSince < now
        THEN [us[i] EXCEPT !.ident = NullIdent, !.last = now]
        ELSE us[i]]

\* result.RowsAffected(): the rows the UPDATE's WHERE matched
RowsAffected(us, deleteSince, now) ==
    Cardinality({i \in 1..Len(us) :
                    us[i].ident # NullIdent /\ us[i].last + deleteSince < now})

\* dbDeleteExpired: UPDATE users SET identifier = NULL WHERE identifier IS
\* NOT NULL AND last_seen + ? < now
dbDeleteExpired(us, deleteSince, now) ==
    [i \in 1..Len(us) |->
        IF us[i].ident # NullIdent /\ us[i].last + deleteSince < now
        THEN [us[i] EXCEPT !.ident = NullIdent]
        ELSE us[i]]

NoHit == [client |-> 0, cur |-> NullIdent, prev |-> NullIdent, rots |-> 0]

NoUserResult ==
    [kind |-> "none", uid |-> 0, hit |-> NoHit, pick |-> 0, at |-> 0,
     before |-> <<>>, after |-> <<>>, prior |-> NoHit, priorUid |-> 0,
     priorMade |-> {}]

\* a dbDeleteExpired call: done when it committed, window is deleteSince,
\* rot the number of the rotation it followed, n and err what it returned
NoSweep ==
    [done |-> FALSE, at |-> 0, before |-> <<>>, after |-> <<>>,
     window |-> 0, rot |-> 0, n |-> 0, err |-> FALSE]

\* dbDeleteExpired returned an error: nothing was written
FailedSweep(us, deleteSince, now, rot) ==
    [done |-> FALSE, at |-> now, before |-> us, after |-> us,
     window |-> deleteSince, rot |-> rot, n |-> 0, err |-> TRUE]

\* the identity state of a process that never ran: no state file, no salts
UserIdle ==
    /\ uNow = 0
    /\ uUp = FALSE
    /\ salts = NoSalts
    /\ saved = NoSalts
    /\ rotAt = 0
    /\ rpc = "wait"
    /\ rotN = 0
    /\ users = <<>>
    /\ handlers = {}
    /\ uq = <<>>
    /\ uFp = 0
    /\ uRes = NoUserResult
    /\ uLast = [c \in 1..UserClients |-> [hit |-> NoHit, uid |-> 0, made |-> {}]]
    /\ uSweep = NoSweep
    /\ uRot = 0
    /\ loopErr = "none"

\* before the first start: there is no state file and the users table is
\* empty; the first Restart is the first start
UserInit == UserIdle

\* time passes, counted from the first start; a running process's rotation
\* timer fires when it is due, and the sweep follows the rotation, before the
\* clock moves on
ClockTick ==
    /\ uNow < MaxTime
    /\ salts # NoSalts
    /\ uUp => (rpc = "wait" /\ uNow < rotAt)
    /\ uNow' = uNow + 1
    /\ UNCHANGED <<uUp, salts, saved, rotAt, rpc, rotN, users, handlers, uq,
                   uFp, uRes, uLast, uSweep, uRot, loopErr>>
    /\ UNCHANGED <<codecVars, eventVars, pipeVars, locVars, lockVars>>

\* rotation goroutine, case <-after / <-ticker.C: Salts.Rotate()
RotateSalts ==
    /\ uUp
    /\ rpc = "wait"
    /\ uNow >= rotAt
    /\ salts' = Rotate(salts, uNow)
    /\ rotN' = rotN + 1
    /\ uRot' = rotN + 1
    /\ rpc' = "sweep"
    /\ UNCHANGED <<uNow, uUp, saved, rotAt, users, handlers, uq, uFp, uRes,
                   uLast, uSweep, loopErr>>
    /\ UNCHANGED <<codecVars, eventVars, pipeVars, locVars, lockVars>>

\* rotation goroutine: Salts.Rotate() returns an error (rand.Read failed
\* before anything was written); the goroutine returns it wrapped, so Run's
\* errgroup cancels ctx
RotateFails ==
    /\ uUp
    /\ rpc = "wait"
    /\ uNow >= rotAt
    /\ rpc' = "returned"
    /\ loopErr' = "rotate"
    /\ UNCHANGED <<uNow, uUp, salts, saved, rotAt, rotN, users, handlers, uq,
                   uFp, uRes, uLast, uSweep, uRot>>
    /\ UNCHANGED <<codecVars, eventVars, pipeVars, locVars, lockVars>>

\* rotation goroutine: dbDeleteExpired(ctx, 2*SaltRotationDuration, db),
\* then the next tick is one rotation duration away
Sweep_SingleWindow ==
    /\ uUp
    /\ rpc = "sweep"
    /\ users' = dbDeleteExpired(users, SaltRotationDuration, uNow)
    /\ uSweep' = [done |-> TRUE, at |-> uNow, before |-> users, after |-> users',
                  window |-> SaltRotationDuration, rot |-> uRot,
                  n |-> RowsAffected(users, SaltRotationDuration, uNow),
                  err |-> FALSE]
    /\ rotAt' = uNow + SaltRotationDuration
    /\ rpc' = "wait"
    /\ UNCHANGED <<uNow, uUp, salts, saved, rotN, handlers, uq, uFp, uRes, uLast,
                   uRot, loopErr>>
    /\ UNCHANGED <<codecVars, eventVars, pipeVars, locVars, lockVars>>

\* rotation goroutine: dbDeleteExpired(ctx, 2*SaltRotationDuration, db),
\* then the next tick is one rotation duration away
Sweep ==
    /\ uUp
    /\ rpc = "sweep"
    /\ users' = dbDeleteExpired(users, 2 * SaltRotationDuration, uNow)
    /\ uSweep' = [done |-> TRUE, at |-> uNow, before |-> users, after |-> users',
                  window |-> 2 * SaltRotationDuration, rot |-> uRot,
                  n |-> RowsAffected(users, 2 * SaltRotationDuration, uNow),
                  err |-> FALSE]
    /\ rotAt' = uNow + SaltRotationDuration
    /\ rpc' = "wait"
    /\ UNCHANGED <<uNow, uUp, salts, saved, rotN, handlers, uq, uFp, uRes, uLast,
                   uRot, loopErr>>
    /\ UNCHANGED <<codecVars, eventVars, pipeVars, locVars, lockVars>>

\* rotation goroutine: dbDeleteExpired returns an error (BeginTx, the UPDATE
\* or Commit failed, the deferred Rollback leaves the table as it was); the
\* goroutine returns it wrapped, so Run's errgroup cancels ctx
SweepFails ==
    /\ uUp
    /\ rpc = "sweep"
    /\ uSweep' = FailedSweep(users, 2 * SaltRotationDuration, uNow, uRot)
    /\ rpc' = "returned"
    /\ loopErr' = "sweep"
    /\ UNCHANGED <<uNow, uUp, salts, saved, rotAt, rotN, users, handlers, uq,
                   uFp, uRes, uLast, uRot>>
    /\ UNCHANGED <<codecVars, eventVars, pipeVars, locVars, lockVars>>

\* a handler builds a Hit: NewHit calls fingerprintRequest
HandlerFingerprint ==
    /\ uUp
    /\ uFp < MaxUserHits
    /\ Cardinality(handlers) < MaxHandlers
    /\ \E c \in 1..UserClients :
          handlers' = handlers \cup {NewHit(c, salts, rotN)}
    /\ uFp' = uFp + 1
    /\ UNCHANGED <<uNow, uUp, salts, saved, rotAt, rpc, rotN, users, uq, uRes,
                   uLast, uSweep, uRot, loopErr>>
    /\ UNCHANGED <<codecVars, eventVars, pipeVars, locVars, lockVars>>

\* the handler sends its Hit: hits <- hit
HandlerSend ==
    /\ uUp
    /\ Len(uq) < MaxPending
    /\ \E h \in handlers :
          /\ handlers' = handlers \ {h}
          /\ uq' = Append(uq, h)
    /\ UNCHANGED <<uNow, uUp, salts, saved, rotAt, rpc, rotN, users, uFp, uRes,
                   uLast, uSweep, uRot, loopErr>>
    /\ UNCHANGED <<codecVars, eventVars, pipeVars, locVars, lockVars>>

\* the committer resolves the oldest Hit: dbInsertHit calls dbInsertUser and
\* the transaction commits; when dbInsertUser fails it is rolled back
ResolveUser ==
    /\ uUp
    /\ uq # <<>>
    /\ LET h == Head(uq)
           m == UserMatches(users, h.cur, h.prev)
       IN  \E pick \in (IF m = {} THEN {0} ELSE m) :
              LET r == dbInsertUser(users, h.cur, h.prev, pick, uNow)
              IN  /\ users' = r.users
                  /\ uRes' = [kind |-> r.kind, uid |-> r.uid, hit |-> h,
                              pick |-> pick, at |-> uNow,
                              before |-> users, after |-> r.users,
                              prior |-> uLast[h.client].hit,
                              priorUid |-> uLast[h.client].uid,
                              priorMade |-> uLast[h.client].made]
                  /\ uLast' = IF r.kind \in {"insert", "seen", "rollover"}
                              THEN [uLast EXCEPT ![h.client] =
                                        [hit |-> h, uid |-> r.uid,
                                         made |-> IF r.kind = "insert"
                                                  THEN @.made \cup {<<h.cur, h.prev>>}
                                                  ELSE @.made]]
                              ELSE uLast
    /\ uq' = Tail(uq)
    /\ UNCHANGED <<uNow, uUp, salts, saved, rotAt, rpc, rotN, handlers, uFp,
                   uSweep, uRot, loopErr>>
    /\ UNCHANGED <<codecVars, eventVars, pipeVars, locVars, lockVars>>

\* shutdown: ctx is cancelled (a signal, or the rotation goroutine returned
\* an error) and State.Save persists the salts. A rotation goroutine that
\* has rotated and not swept yet calls dbDeleteExpired with the cancelled
\* ctx, which fails in BeginTx. Hits not yet committed are gone with the
\* process.
Shutdown ==
    /\ uUp
    /\ uUp' = FALSE
    /\ saved' = salts
    /\ uSweep' = IF rpc = "sweep"
                 THEN FailedSweep(users, 2 * SaltRotationDuration, uNow, uRot)
                 ELSE uSweep
    /\ rpc' = "wait"
    /\ handlers' = {}
    /\ uq' = <<>>
    /\ UNCHANGED <<uNow, salts, rotAt, rotN, users, uFp, uRes, uLast, uRot,
                   loopErr>>
    /\ UNCHANGED <<codecVars, eventVars, pipeVars, locVars, lockVars>>

\* start: State.Load reads the salts, if there is a state file, and
\* Salts.Load generates them or rotates them once when they are at least one
\* rotation duration old; Run starts the rotation goroutine, which waits for
\* its first timer
Restart ==
    /\ ~uUp
    /\ uUp' = TRUE
    /\ salts' = LoadSalts(saved, uNow)
    /\ rotN' = IF saved.LastRotated # ZeroTime /\ salts' # saved
               THEN rotN + 1 ELSE rotN
    /\ rotAt' = FirstRotation(salts', uNow)
    /\ loopErr' = "none"
    /\ UNCHANGED <<uNow, saved, rpc, users, handlers, uq, uFp, uRes, uLast,
                   uSweep, uRot>>
    /\ UNCHANGED <<codecVars, eventVars, pipeVars, locVars, lockVars>>

UserNext ==
    \/ ClockTick
    \/ RotateSalts
    \/ RotateFails
    \/ Sweep
    \/ SweepFails
    \/ HandlerFingerprint
    \/ HandlerSend
    \/ ResolveUser
    \/ Shutdown
    \/ Restart

----------------------------------------------------------------------------
(* The salts' lock: fingerprintRequest reads Salts.Current and             *)
(* Salts.Previous under RLock, Salts.Rotate writes LastRotated, Previous   *)
(* and Current under Lock. Each read and write of a field is a step.       *)

LockInit ==
    /\ smu = [w |-> FALSE, r |-> 0]
    /\ smem = FreshSalts(0)
    /\ srot = [pc |-> "idle", next |-> 0, n |-> 0]
    /\ sfp = [i \in 1..MaxReaders |-> [pc |-> "idle", cur |-> 0, prev |-> 0]]
    /\ sepochs = {<<FreshSalts(0).Current, FreshSalts(0).Previous>>}
    /\ sout = {}
    /\ ssave = [pc |-> "idle", salts |-> NoSalts]
    /\ sio = {}

\* fingerprintRequest: sheepcount.state.Salts.RLock(); blocks while the
\* write lock is held
FpRLock ==
    /\ \E i \in 1..MaxReaders :
          /\ sfp[i].pc = "idle"
          /\ ~smu.w
          /\ sfp' = [sfp EXCEPT ![i].pc = "rlocked"]
    /\ smu' = [smu EXCEPT !.r = @ + 1]
    /\ UNCHANGED <<smem, srot, sepochs, sout>>
    /\ UNCHANGED <<ssave, sio>>
    /\ UNCHANGED <<codecVars, eventVars, pipeVars, userVars, locVars>>

\* hasherCurrent, err := blake2b.New(blake2b.Size256, Salts.Current[:])
FpKeyCurrent ==
    /\ \E i \in 1..MaxReaders :
          /\ sfp[i].pc = "rlocked"
          /\ sfp' = [sfp EXCEPT ![i].pc = "keyedCurrent", ![i].cur = smem.Current]
    /\ UNCHANGED <<smu, smem, srot, sepochs, sout>>
    /\ UNCHANGED <<ssave, sio>>
    /\ UNCHANGED <<codecVars, eventVars, pipeVars, userVars, locVars>>

\* hasherPrevious, err := blake2b.New(blake2b.Size256, Salts.Previous[:])
FpKeyPrevious ==
    /\ \E i \in 1..MaxReaders :
          /\ sfp[i].pc = "keyedCurrent"
          /\ sfp' = [sfp EXCEPT ![i].pc = "keyedPrevious", ![i].prev = smem.Previous]
    /\ UNCHANGED <<smu, smem, srot, sepochs, sout>>
    /\ UNCHANGED <<ssave, sio>>
    /\ UNCHANGED <<codecVars, eventVars, pipeVars, userVars, locVars>>

\* return hasherCurrent.Sum(nil), hasherPrevious.Sum(nil), nil; the deferred
\* RUnlock runs
FpReturn ==
    /\ \E i \in 1..MaxReaders :
          /\ sfp[i].pc = "keyedPrevious"
          /\ sout' = sout \cup {<<sfp[i].cur, sfp[i].prev>>}
          /\ sfp' = [sfp EXCEPT ![i] = [pc |-> "idle", cur |-> 0, prev |-> 0]]
    /\ smu' = [smu EXCEPT !.r = @ - 1]
    /\ UNCHANGED <<smem, srot, sepochs>>
    /\ UNCHANGED <<ssave, sio>>
    /\ UNCHANGED <<codecVars, eventVars, pipeVars, userVars, locVars>>

\* Rotate entering without waiting for the read locks to be released
RotLock_NoExclusion ==
    /\ srot.pc = "idle"
    /\ srot.n < MaxRotations
    /\ ~smu.w
    /\ smu' = [smu EXCEPT !.w = TRUE]
    /\ srot' = [srot EXCEPT !.pc = "locked"]
    /\ UNCHANGED <<smem, sfp, sepochs, sout>>
    /\ UNCHANGED <<ssave, sio>>
    /\ UNCHANGED <<codecVars, eventVars, pipeVars, userVars, locVars>>

\* Rotate: salts.Lock(); blocks while any lock is held
RotLock ==
    /\ srot.pc = "idle"
    /\ srot.n < MaxRotations
    /\ ~smu.w
    /\ smu.r = 0
    /\ smu' = [smu EXCEPT !.w = TRUE]
    /\ srot' = [srot EXCEPT !.pc = "locked"]
    /\ UNCHANGED <<smem, sfp, sepochs, sout>>
    /\ UNCHANGED <<ssave, sio>>
    /\ UNCHANGED <<codecVars, eventVars, pipeVars, userVars, locVars>>

\* the salts lock the calling task holds: Rotate's caller holds the write
\* lock from Lock() to the deferred Unlock(), Save's caller the read lock
LockHeld(w, r) == IF w THEN "write" ELSE IF r THEN "read" ELSE "none"

\* rand.Read(next[:]): a read of the operating system's random source
RotDraw ==
    /\ srot.pc = "locked"
    /\ srot' = [srot EXCEPT !.pc = "drawn", !.next = smem.Current + 1]
    /\ sio' = sio \cup {[op |-> "rand.Read", lock |-> LockHeld(smu.w, FALSE)]}
    /\ UNCHANGED <<smu, smem, sfp, sepochs, sout, ssave>>
    /\ UNCHANGED <<codecVars, eventVars, pipeVars, userVars, locVars>>

\* salts.LastRotated = time.Now().UTC()
RotStamp ==
    /\ srot.pc = "drawn"
    /\ srot' = [srot EXCEPT !.pc = "stamped"]
    /\ smem' = [smem EXCEPT !.LastRotated = srot.n + 1]
    /\ UNCHANGED <<smu, sfp, sepochs, sout>>
    /\ UNCHANGED <<ssave, sio>>
    /\ UNCHANGED <<codecVars, eventVars, pipeVars, userVars, locVars>>

\* copy(salts.Previous[:], salts.Current[:])
RotShift ==
    /\ srot.pc = "stamped"
    /\ smem' = [smem EXCEPT !.Previous = smem.Current]
    /\ srot' = [srot EXCEPT !.pc = "shifted"]
    /\ UNCHANGED <<smu, sfp, sepochs, sout>>
    /\ UNCHANGED <<ssave, sio>>
    /\ UNCHANGED <<codecVars, eventVars, pipeVars, userVars, locVars>>

\* copy(salts.Current[:], next[:])
RotInstall ==
    /\ srot.pc = "shifted"
    /\ smem' = [smem EXCEPT !.Current = srot.next]
    /\ srot' = [srot EXCEPT !.pc = "installed"]
    /\ UNCHANGED <<smu, sfp, sepochs, sout>>
    /\ UNCHANGED <<ssave, sio>>
    /\ UNCHANGED <<codecVars, eventVars, pipeVars, userVars, locVars>>

\* return nil; the deferred salts.Unlock() runs
RotUnlock ==
    /\ srot.pc = "installed"
    /\ smu' = [smu EXCEPT !.w = FALSE]
    /\ srot' = [pc |-> "idle", next |-> 0, n |-> srot.n + 1]
    /\ sepochs' = sepochs \cup {<<smem.Current, smem.Previous>>}
    /\ UNCHANGED <<smem, sfp, sout>>
    /\ UNCHANGED <<ssave, sio>>
    /\ UNCHANGED <<codecVars, eventVars, pipeVars, userVars, locVars>>

\* State.Save: state.Salts.RLock(); blocks while the write lock is held
SaveRLock ==
    /\ ssave.pc = "idle"
    /\ ~smu.w
    /\ smu' = [smu EXCEPT !.r = @ + 1]
    /\ ssave' = [ssave EXCEPT !.pc = "rlocked"]
    /\ UNCHANGED <<smem, srot, sfp, sepochs, sout, sio>>
    /\ UNCHANGED <<codecVars, eventVars, pipeVars, userVars, locVars>>

\* contents, err := json.Marshal(state)
SaveMarshal ==
    /\ ssave.pc = "rlocked"
    /\ ssave' = [pc |-> "marshalled", salts |-> smem]
    /\ UNCHANGED <<smu, smem, srot, sfp, sepochs, sout, sio>>
    /\ UNCHANGED <<codecVars, eventVars, pipeVars, userVars, locVars>>

\* f, err := os.OpenFile(statePath, os.O_RDWR|os.O_CREATE|os.O_TRUNC, 0600)
SaveOpenFile ==
    /\ ssave.pc = "marshalled"
    /\ ssave' = [ssave EXCEPT !.pc = "opened"]
    /\ sio' = sio \cup {[op |-> "os.OpenFile", lock |-> LockHeld(FALSE, ssave.pc # "idle")]}
    /\ UNCHANGED <<smu, smem, srot, sfp, sepochs, sout>>
    /\ UNCHANGED <<codecVars, eventVars, pipeVars, userVars, locVars>>

\* _, err = f.Write(contents)
SaveWrite ==
    /\ ssave.pc = "opened"
    /\ ssave' = [ssave EXCEPT !.pc = "written"]
    /\ sio' = sio \cup {[op |-> "f.Write", lock |-> LockHeld(FALSE, ssave.pc # "idle")]}
    /\ UNCHANGED <<smu, smem, srot, sfp, sepochs, sout>>
    /\ UNCHANGED <<codecVars, eventVars, pipeVars, userVars, locVars>>

\* return nil; the deferred f.Close() and RUnlock() run
SaveReturn ==
    /\ ssave.pc = "written"
    /\ ssave' = [ssave EXCEPT !.pc = "done"]
    /\ smu' = [smu EXCEPT !.r = @ - 1]
    /\ UNCHANGED <<smem, srot, sfp, sepochs, sout, sio>>
    /\ UNCHANGED <<codecVars, eventVars, pipeVars, userVars, locVars>>

LockNext ==
    \/ FpRLock
    \/ FpKeyCurrent
    \/ FpKeyPrevious
    \/ FpReturn
    \/ RotLock
    \/ RotDraw
    \/ RotStamp
    \/ RotShift
    \/ RotInstall
    \/ RotUnlock
    \/ SaveRLock
    \/ SaveMarshal
    \/ SaveOpenFile
    \/ SaveWrite
    \/ SaveReturn

----------------------------------------------------------------------------
(* Locations: the locations table with its CHECKs, unique indexes and the  *)
(* valid_location_parent trigger, and dbInsertLocation. A name is a        *)
(* positive number, Null is SQL NULL; row i of locs has location_id i.     *)

Null == 0

\* a row of locations: exactly one of the four name columns is set
LocRow(parent, country, subdivision, city, postal) ==
    [parent |-> parent, country |-> country, subdivision |-> subdivision,
     city |-> city, postal |-> postal]

\* a Location (hit.go): the four sql.NullString fields
Location(country, subdivision, city, postal) ==
    [country |-> country, subdivision |-> subdivision, city |-> city,
     postal |-> postal]

\* CAST(x IS NOT NULL AS INTEGER)
NotNull(x) == IF x # Null THEN 1 ELSE 0

\* the table's CHECK constraints on a new row
LocChecks(row) ==
    /\ NotNull(row.parent) + NotNull(row.country) = 1
    /\ NotNull(row.country) + NotNull(row.subdivision) + NotNull(row.city)
          + NotNull(row.postal) = 1

\* the four partial unique indexes
LocUnique(s, row) ==
    \A i \in 1..Len(s) :
        /\ ~(row.country # Null /\ s[i].country = row.country)
        /\ ~(row.subdivision # Null /\ s[i].parent = row.parent
                /\ s[i].subdivision = row.subdivision)
        /\ ~(row.city # Null /\ s[i].parent = row.parent /\ s[i].city = row.city)
        /\ ~(row.postal # Null /\ s[i].parent = row.parent
                /\ s[i].postal = row.postal)

\* the table without the trigger
LocTriggerAborts_NoTrigger(s, row) == FALSE

\* trigger valid_location_parent: TRUE when it raises ABORT
LocTriggerAborts(s, row) ==
    row.parent \in 1..Len(s)
    /\ \/ row.subdivision # Null /\ s[row.parent].country = Null
       \/ row.city # Null /\ s[row.parent].country = Null
             /\ s[row.parent].subdivision = Null
       \/ row.postal # Null /\ s[row.parent].city = Null

\* the INSERT with locationId left as it was instead of scanned
InsertLocationRow_IdNotScanned(s, row) ==
    IF LocChecks(row) /\ LocUnique(s, row) /\ ~LocTriggerAborts(s, row)
    THEN [ok |-> TRUE, s |-> Append(s, row),
          id |-> IF row.parent = Null THEN Len(s) + 1 ELSE row.parent]
    ELSE [ok |-> FALSE, s |-> s, id |-> Null]

\* INSERT INTO locations ... RETURNING location_id
InsertLocationRow(s, row) ==
    IF LocChecks(row) /\ LocUnique(s, row) /\ ~LocTriggerAborts(s, row)
    THEN [ok |-> TRUE, s |-> Append(s, row), id |-> Len(s) + 1]
    ELSE [ok |-> FALSE, s |-> s, id |-> Null]

\* CASE WHEN x IS NOT NULL THEN x ELSE y END
Coalesce(x, y) == IF x # Null THEN x ELSE y

\* (locations.f IS NULL OR locations.f = :f OR l.f = :f) is true; a
\* comparison with NULL is unknown, and WHERE keeps only true
CteCond(childF, lF, reqF) ==
    childF = Null \/ (reqF # Null /\ (childF = reqF \/ lF = reqF))

LRow(id, country, subdivision, city, postal) ==
    [id |-> id, country |-> country, subdivision |-> subdivision,
     city |-> city, postal |-> postal]

\* the CTE's initial SELECT: WHERE country = :country
CteBase(s, req) ==
    {LRow(i, s[i].country, s[i].subdivision, s[i].city, s[i].postal) :
        i \in {j \in 1..Len(s) : req.country # Null /\ s[j].country = req.country}}

\* the CTE's recursive SELECT applied to the rows L
CteStep(s, req, L) ==
    {LRow(p[1], Coalesce(s[p[1]].country, p[2].country),
          Coalesce(s[p[1]].subdivision, p[2].subdivision),
          Coalesce(s[p[1]].city, p[2].city),
          Coalesce(s[p[1]].postal, p[2].postal)) :
        p \in {q \in (1..Len(s)) \X L :
                  /\ s[q[1]].parent = q[2].id
                  /\ CteCond(s[q[1]].subdivision, q[2].subdivision, req.subdivision)
                  /\ CteCond(s[q[1]].city, q[2].city, req.city)
                  /\ CteCond(s[q[1]].postal, q[2].postal, req.postal)}}

\* WITH RECURSIVE l: the rows computed until no new row appears
RECURSIVE CteRows(_, _, _)
CteRows(s, req, L) ==
    LET more == L \cup CteStep(s, req, L)
    IN  IF more = L THEN L ELSE CteRows(s, req, more)

\* ORDER BY x with NULL sorting first, SQLite's default
NullsLastBefore_NullsFirst(x, y) == x # y /\ (x = Null \/ (y # Null /\ x < y))

\* ORDER BY x NULLS LAST: x sorts before y
NullsLastBefore(x, y) == x # y /\ (y = Null \/ (x # Null /\ x < y))

\* ORDER BY country, subdivision, city, postal, each NULLS LAST
OrderedBefore(a, b) ==
    \/ NullsLastBefore(a.country, b.country)
    \/ a.country = b.country /\ NullsLastBefore(a.subdivision, b.subdivision)
    \/ a.country = b.country /\ a.subdivision = b.subdivision
          /\ NullsLastBefore(a.city, b.city)
    \/ a.country = b.country /\ a.subdivision = b.subdivision /\ a.city = b.city
          /\ NullsLastBefore(a.postal, b.postal)

\* sql.ErrNoRows: the scanned variables keep their zero values
NoLRow == LRow(Null, Null, Null, Null, Null)

\* the rows LIMIT 1 can return
NearestRows(s, req) ==
    LET L == CteRows(s, req, CteBase(s, req))
    IN  IF L = {} THEN {NoLRow}
        ELSE {a \in L : \A b \in L : ~OrderedBefore(b, a)}

LocResult(kind, id, s) == [kind |-> kind, id |-> id, s |-> s]

\* one of the four guarded INSERTs of dbInsertLocation: r is the state so
\* far, [ok, s, id]; the new row is parented on r.id
InsertLevel(r, wanted, country, subdivision, city, postal) ==
    IF ~r.ok \/ ~wanted THEN r
    ELSE InsertLocationRow(r.s, LocRow(IF country # Null THEN Null ELSE r.id,
                                       country, subdivision, city, postal))

\* dbInsertLocation without the early return for an unknown location
dbInsertLocation_NoUnknown(s, req, found) ==
    IF Location(found.country, found.subdivision, found.city, found.postal) = req
    THEN (IF found.id = Null THEN LocResult("panic", Null, s)
          ELSE LocResult("ok", found.id, s))
    ELSE LET r0 == [ok |-> TRUE, s |-> s, id |-> found.id]
             r1 == InsertLevel(r0, found.country # req.country /\ req.country # Null,
                               req.country, Null, Null, Null)
             r2 == InsertLevel(r1, found.subdivision # req.subdivision
                                      /\ req.subdivision # Null,
                               Null, req.subdivision, Null, Null)
             r3 == InsertLevel(r2, found.city # req.city /\ req.city # Null,
                               Null, Null, req.city, Null)
             r4 == InsertLevel(r3, found.postal # req.postal /\ req.postal # Null,
                               Null, Null, Null, req.postal)
         IN  IF ~r4.ok THEN LocResult("err", Null, s)
             ELSE IF r4.id = Null THEN LocResult("panic", Null, s)
             ELSE LocResult("ok", r4.id, r4.s)

\* dbInsertLocation: found is the row the query returned
dbInsertLocation(s, req, found) ==
    IF req.country = Null THEN LocResult("ok", Null, s)
    ELSE IF Location(found.country, found.subdivision, found.city, found.postal) = req
    THEN (IF found.id = Null THEN LocResult("panic", Null, s)
          ELSE LocResult("ok", found.id, s))
    ELSE LET r0 == [ok |-> TRUE, s |-> s, id |-> found.id]
             r1 == InsertLevel(r0, found.country # req.country /\ req.country # Null,
                               req.country, Null, Null, Null)
             r2 == InsertLevel(r1, found.subdivision # req.subdivision
                                      /\ req.subdivision # Null,
                               Null, req.subdivision, Null, Null)
             r3 == InsertLevel(r2, found.city # req.city /\ req.city # Null,
                               Null, Null, req.city, Null)
             r4 == InsertLevel(r3, found.postal # req.postal /\ req.postal # Null,
                               Null, Null, Null, req.postal)
         IN  IF ~r4.ok THEN LocResult("err", Null, s)
             ELSE IF r4.id = Null THEN LocResult("panic", Null, s)
             ELSE LocResult("ok", r4.id, r4.s)

\* the Locations a caller can pass: any combination of the four fields
Locations ==
    {Location(c, sd, ci, po) :
        c \in 0..NumCountries, sd \in 0..NumSubdivisions,
        ci \in 0..NumCities, po \in 0..NumPostals}

\* the rows TestInsertLocation starts from, over the model's names: sibling
\* subdivisions and postals, a city name under two countries, a city
\* parented directly on a country
TestLocations ==
    << LocRow(Null, 1, Null, Null, Null),
       LocRow(1, Null, 1, Null, Null),
       LocRow(1, Null, 2, Null, Null),
       LocRow(2, Null, Null, 1, Null),
       LocRow(4, Null, Null, Null, 1),
       LocRow(4, Null, Null, Null, 2),
       LocRow(3, Null, Null, 2, Null),
       LocRow(Null, 2, Null, Null, Null),
       LocRow(8, Null, Null, 1, Null) >>

NoLocCall ==
    [kind |-> "none", req |-> Location(Null, Null, Null, Null), id |-> Null,
     found |-> NoLRow, before |-> <<>>, after |-> <<>>]

\* a writer before its transaction
NoTx ==
    [pc |-> "idle", req |-> Location(Null, Null, Null, Null), overlap |-> FALSE,
     kind |-> "none", id |-> Null, inserted |-> 0]

\* the record of an address the GeoIP database knows nothing about
NoRecord == Location(Null, Null, Null, Null)

LocInitOf(s) ==
    /\ locs = s
    /\ geo = [c \in 1..UserClients |-> NoRecord]
    /\ wlock = 0
    /\ wtx = [w \in 1..NumWriters |-> NoTx]
    /\ lRes = NoLocCall
    /\ lPrev = NoLocCall
    /\ lN = 0

\* the table after the first Hit of a visitor of whom only the country is
\* known: the country node alone
CountryOnly == << LocRow(Null, 1, Null, Null, Null) >>

\* an empty table, the country node alone, or the test's table
LocInit == \E s \in {<<>>, CountryOnly, TestLocations} : LocInitOf(s)

\* a transaction calls dbInsertLocation and commits; when the call fails the
\* transaction is rolled back and the table is as before. A run is
\* MaxLocCalls calls in a row.
CallInsertLocation ==
    /\ lN < MaxLocCalls
    /\ lN' = lN + 1
    /\ \E req \in Locations :
          \E found \in NearestRows(locs, req) :
             LET r == dbInsertLocation(locs, req, found)
             IN  /\ locs' = r.s
                 /\ lRes' = [kind |-> r.kind, req |-> req, id |-> r.id,
                             found |-> found, before |-> locs, after |-> r.s]
    /\ lPrev' = lRes
    /\ UNCHANGED <<wlock, wtx, geo>>
    /\ UNCHANGED <<codecVars, eventVars, pipeVars, userVars, lockVars>>

LocNext == CallInsertLocation

----------------------------------------------------------------------------
(* Writers of one database file. Each is a committer goroutine: it begins  *)
(* a transaction, switches it to BEGIN IMMEDIATE, calls dbInsertHit (here  *)
(* its dbInsertLocation) and commits. SQLite has one write lock per        *)
(* database; BEGIN IMMEDIATE waits for it for at most _busy_timeout.       *)

\* some transaction other than w's is begun and not yet finished
OtherInFlight(w) ==
    \E v \in (1..NumWriters) \ {w} : wtx[v].pc \in {"begin", "immediate"}

\* for hits := range hitsC: the committer receives a batch whose Hit has the
\* Location req; tx, err := conn.BeginTx(context.Background(), nil)
WriterBegin ==
    /\ \E w \in 1..NumWriters :
          /\ wtx[w].pc = "idle"
          /\ \E req \in Locations :
                wtx' = [wtx EXCEPT ![w] = [NoTx EXCEPT !.pc = "begin", !.req = req,
                                                       !.overlap = OtherInFlight(w)]]
    /\ UNCHANGED <<locs, lRes, lPrev, lN, wlock, geo>>
    /\ UNCHANGED <<codecVars, eventVars, pipeVars, userVars, lockVars>>

\* tx.ExecContext(..., "ROLLBACK; BEGIN IMMEDIATE") gets the write lock
WriterBeginImmediate ==
    /\ wlock = 0
    /\ \E w \in 1..NumWriters :
          /\ wtx[w].pc = "begin"
          /\ wlock' = w
          /\ wtx' = [wtx EXCEPT ![w].pc = "immediate",
                                ![w].overlap = @ \/ OtherInFlight(w)]
    /\ UNCHANGED <<locs, lRes, lPrev, lN, geo>>
    /\ UNCHANGED <<codecVars, eventVars, pipeVars, userVars, lockVars>>

\* the write lock is still held when _busy_timeout has passed: ExecContext
\* returns SQLITE_BUSY, the closure returns err, the deferred tx.Rollback()
\* runs and the batch is logged and dropped
WriterBusy ==
    /\ wlock # 0
    /\ \E w \in 1..NumWriters :
          /\ wtx[w].pc = "begin"
          /\ wtx' = [wtx EXCEPT ![w].pc = "done", ![w].kind = "busy"]
    /\ UNCHANGED <<locs, lRes, lPrev, lN, wlock, geo>>
    /\ UNCHANGED <<codecVars, eventVars, pipeVars, userVars, lockVars>>

\* dbInsertHit calls dbInsertLocation; then tx.Commit(), or on an error the
\* deferred tx.Rollback(); either releases the write lock
WriterCommit ==
    /\ wlock # 0
    /\ wtx[wlock].pc = "immediate"
    /\ \E found \in NearestRows(locs, wtx[wlock].req) :
          LET r == dbInsertLocation(locs, wtx[wlock].req, found)
          IN  /\ locs' = r.s
              /\ wtx' = [wtx EXCEPT ![wlock].pc = "done", ![wlock].kind = r.kind,
                                    ![wlock].id = r.id,
                                    ![wlock].inserted = Len(r.s) - Len(locs)]
    /\ wlock' = 0
    /\ UNCHANGED <<lRes, lPrev, lN, geo>>
    /\ UNCHANGED <<codecVars, eventVars, pipeVars, userVars, lockVars>>

WritersNext ==
    \/ WriterBegin
    \/ WriterBeginImmediate
    \/ WriterBusy
    \/ WriterCommit

----------------------------------------------------------------------------
(* The committer path: one transaction of the committer runs dbInsertHit   *)
(* for a Hit, which calls dbInsertUser and then dbInsertLocation on the    *)
(* same transaction.                                                       *)

\* Hit.setLocation: rec is the GeoIP record (Null: an empty string); without
\* a country nothing is set, without a city the postal code is not set
setLocation(rec) ==
    IF rec.country = Null THEN Location(Null, Null, Null, Null)
    ELSE IF rec.city = Null THEN Location(rec.country, rec.subdivision, Null, Null)
    ELSE rec

\* the GeoIP records of a run: one without a country, one with a postal
\* code and no city, a complete one
GeoRecords ==
    { Location(Null, 1, 1, 1), Location(1, Null, Null, 1), Location(1, 1, 1, 1) }

\* the committer's start: an empty locations table; each client's address
\* has one of the records
CommitterInit ==
    /\ locs = <<>>
    /\ geo \in [1..UserClients -> GeoRecords]
    /\ wlock = 0
    /\ wtx = [w \in 1..NumWriters |-> NoTx]
    /\ lRes = NoLocCall
    /\ lPrev = NoLocCall
    /\ lN = 0

\* dbInsertHit for the oldest Hit, in its own transaction: dbInsertUser,
\* then dbInsertLocation with the Location NewHit set from the record of
\* the request's address (the address is part of the fingerprint, so the
\* Hits of a client carry one Location); tx.Commit() when both returned nil, else the
\* deferred tx.Rollback() leaves both tables as they were. A panic ends the
\* process.
CommitHit ==
    /\ uUp
    /\ uq # <<>>
    /\ LET h == Head(uq)
           m == UserMatches(users, h.cur, h.prev)
       IN  \E pick \in (IF m = {} THEN {0} ELSE m) :
           \E found \in NearestRows(locs, setLocation(geo[h.client])) :
              LET req == setLocation(geo[h.client])
                  u == dbInsertUser(users, h.cur, h.prev, pick, uNow)
                  userOk == u.kind \in {"insert", "seen", "rollover"}
                  l == IF userOk THEN dbInsertLocation(locs, req, found)
                       ELSE LocResult("none", Null, locs)
                  ok == userOk /\ l.kind = "ok"
              IN  /\ users' = IF ok THEN u.users ELSE users
                  /\ locs' = IF ok THEN l.s ELSE locs
                  /\ uRes' = [kind |-> u.kind, uid |-> u.uid, hit |-> h,
                              pick |-> pick, at |-> uNow,
                              before |-> users, after |-> users',
                              prior |-> uLast[h.client].hit,
                              priorUid |-> uLast[h.client].uid,
                              priorMade |-> uLast[h.client].made]
                  /\ lRes' = [kind |-> l.kind, req |-> req, id |-> l.id,
                              found |-> found, before |-> locs, after |-> locs']
                  /\ uLast' = IF ok
                              THEN [uLast EXCEPT ![h.client] =
                                        [hit |-> h, uid |-> u.uid,
                                         made |-> IF u.kind = "insert"
                                                  THEN @.made \cup {<<h.cur, h.prev>>}
                                                  ELSE @.made]]
                              ELSE uLast
    /\ uq' = Tail(uq)
    /\ UNCHANGED <<uNow, uUp, salts, saved, rotAt, rpc, rotN, handlers, uFp,
                   uSweep, uRot, loopErr>>
    /\ UNCHANGED <<lPrev, lN, wlock, wtx, geo>>
    /\ UNCHANGED <<codecVars, eventVars, pipeVars, lockVars>>

CommitterNext ==
    \/ ClockTick
    \/ RotateSalts
    \/ RotateFails
    \/ Sweep
    \/ SweepFails
    \/ HandlerFingerprint
    \/ HandlerSend
    \/ CommitHit
    \/ Shutdown
    \/ Restart

----------------------------------------------------------------------------
(* Specifications *)

\* the pipeline at rest: no Hit is ever enqueued
IdleScenario ==
    [hits |-> 0, ticks |-> 0, clients |-> 1, queued |-> 0,
     cancelFrom |-> 0, faults |-> FALSE, late |-> FALSE]

InitCodec ==
    CodecInit /\ EventInit /\ PipeInitOf(IdleScenario) /\ UserIdle /\ LocInitOf(<<>>) /\ LockInit

\* the codec's callers; the pipeline is idle
SpecCodec == InitCodec /\ [][CodecNext]_vars

InitPipe ==
    CodecInit /\ EventInit /\ PipeInit /\ UserIdle /\ LocInitOf(<<>>) /\ LockInit

\* the pipeline and its environment; the codec is not called
SpecPipe == InitPipe /\ [][PipeNext]_vars

InitUsers ==
    CodecInit /\ EventInit /\ PipeInitOf(IdleScenario) /\ UserInit /\ LocInitOf(<<>>) /\ LockInit

\* salts, rotation loop, handlers and user resolution over the users table
SpecUsers == InitUsers /\ [][UserNext]_vars

InitLocations ==
    CodecInit /\ EventInit /\ PipeInitOf(IdleScenario) /\ UserIdle /\ LocInit /\ LockInit

\* transactions calling dbInsertLocation on the locations table
SpecLocations == InitLocations /\ [][LocNext]_vars

InitLock ==
    CodecInit /\ EventInit /\ PipeInitOf(IdleScenario) /\ UserIdle /\ LocInitOf(<<>>) /\ LockInit

\* requests in fingerprintRequest and the goroutine calling Salts.Rotate
SpecLock == InitLock /\ [][LockNext]_vars

InitEvents ==
    CodecInit /\ EventInit /\ PipeInitOf(IdleScenario) /\ UserIdle
        /\ LocInitOf(<<>>) /\ LockInit

\* requests to /event and the committer writing their Hits
SpecEvents == InitEvents /\ [][EventNext]_vars

\* committers writing locations to one database file
SpecWriters == InitLocations /\ [][WritersNext]_vars

\* the users model with the committer running the whole of dbInsertHit
InitCommitter ==
    CodecInit /\ EventInit /\ PipeInitOf(IdleScenario) /\ UserInit
        /\ CommitterInit /\ LockInit

SpecCommitter == InitCommitter /\ [][CommitterNext]_vars

----------------------------------------------------------------------------
(* Claims about the codec, checked under SpecCodec. *)

\* the string handed to the decoder is exactly what the encoder returned
Untampered == cEnc # "none" /\ cStr = cOrig

\* one byte of the encoder's string was changed
Tampered == cEnc # "none" /\ cStr # cOrig

\* the bytes a string carries: the decoded base64 of a token, the decoded hex
\* between the quotation marks of an ETag; <<>> when it carries none
CarriedBytes(kind, str) ==
    IF kind = "token"
    THEN (IF B64Decode(str).ok THEN B64Decode(str).bytes ELSE <<>>)
    ELSE IF Len(str) >= 2 /\ HasPrefix(str, <<34>>) /\ HasSuffix(str, <<34>>)
              /\ HexDecode(Slice(str, 1, Len(str) - 1)).ok
         THEN HexDecode(Slice(str, 1, Len(str) - 1)).bytes
         ELSE <<>>

\* C2 (as claimed): decodeToken and decodeETag never panic, whatever the
\* input string and the key: a decoder that ran returned a value or an error.
C2_DecodeNeverPanics ==
    cDec # "none" => cRes.kind \in {"ok", "err"}

C5_TamperFails ==
    (Tampered /\ cDec = cEnc) => cRes.kind = "err"

\* C5 (what the decoders do guarantee): after changing any single byte its
\* decoder never panics and never returns a value other than the encoded
\* one. It succeeds, returning the original identifier (and hash), exactly
\* when the changed string still carries the same bytes (a hex digit in the
\* other case, a base64 character differing only in its unused trailing
\* bits); otherwise it fails, with the MAC error when the string is
\* well-formed and of the right length.
C5_TamperNeverForges ==
    (Tampered /\ cDec = cEnc) =>
        LET same == CarriedBytes(cEnc, cStr) = CarriedBytes(cEnc, cOrig)
            size == IF cEnc = "token" THEN 32 ELSE 48
        IN  /\ cRes.kind \in {"ok", "err"}
            /\ cRes.kind = "ok" <=> same
            /\ cRes.kind = "ok" => (cRes.ident = cIdent /\ cRes.hash = cHash)
            /\ (~same /\ Len(CarriedBytes(cEnc, cStr)) = size)
                   => cRes.err = "HMAC failed"

----------------------------------------------------------------------------
(* Claims about the ingestion pipeline, checked under SpecPipe. *)

\* the ids of the Hits of a batch, in order
Ids(batch) == [i \in 1..Len(batch) |-> batch[i].id]

\* the ids of the hit rows committed to the database
CommittedIds == {db.hits[i] : i \in 1..Len(db.hits)}

\* C1 (as claimed): once DatabaseWriter has returned, and no storage call
\* has failed, every Hit that handleEvent enqueued before the cancellation
\* is a committed row; none is left on the inbound queue or in the batch.
C1_ShutdownSafety ==
    (WriterReturned /\ ~storageErr /\ atCancel >= 0)
        => \A n \in 1..atCancel : n \in CommittedIds

\* C6: a batch that reaches 256 Hits is sent at once: the batcher is at its
\* select only with fewer than 256 Hits; the receive that makes the batch
\* full takes it to the send of line 61, where it can do nothing but hand
\* that batch of 256 to the committer (no tick is received in between), and
\* it goes on with a new empty batch.
C6_SizeFlush ==
    /\ [](/\ bpc = "select" => Len(hits) < FlushSize
          /\ bpc = "sendFull" => Len(hits) = FlushSize
          /\ \A i \in 1..Len(sent) :
                sent[i].why = "size" => Len(sent[i].hits) = FlushSize)
    /\ [][/\ (Len(hits) < FlushSize /\ Len(hits') >= FlushSize)
                => bpc' = "sendFull"
          /\ (bpc = "sendFull" /\ bpc' # "sendFull")
                => /\ cbatch' = hits
                   /\ sent' = Append(sent, [hits |-> hits, why |-> "size"])
                   /\ hits' = <<>>
                   /\ bpc' = "select"
                   /\ tickC' = tickC]_vars

C6_Witness ==
    /\ \E i \in 1..Len(sent) :
          sent[i].why = "size" /\ Ids(sent[i].hits) = [n \in 1..FlushSize |-> n]
    /\ Ids(hits) = <<FlushSize + 1>>
    /\ ticks = 0

\* C7: when exactly one Hit was enqueued, at most one batch is sent, it holds
\* exactly that Hit, and unless ctx is cancelled it is the timer that sent
\* it; the batcher receiving a tick sends its batch if that is non-empty and
\* sends nothing (it stays at its select) if it is empty, so no empty batch
\* is ever sent by the timer.
C7_TimerFlush ==
    /\ [](/\ nextId = 1 =>
                /\ Len(sent) <= 1
                /\ sent # <<>> => Ids(sent[1].hits) = <<1>>
                /\ (sent # <<>> /\ ~ctxDone) => sent[1].why = "timer"
          /\ bpc = "sendTick" => hits # <<>>
          /\ \A i \in 1..Len(sent) : sent[i].why = "timer" => sent[i].hits # <<>>)
    /\ [][(tickC /\ ~tickC')
             => /\ hits' = hits /\ sent' = sent
                /\ bpc' = IF hits = <<>> THEN "select" ELSE "sendTick"]_vars

C7_Witness ==
    /\ nextId = 1
    /\ Len(sent) = 1
    /\ Ids(sent[1].hits) = <<1>>
    /\ sent[1].why = "timer"
    /\ ~ctxDone
    /\ hits = <<>>
    /\ db.hits = <<1>>

\* C8 (as claimed): on the shutdown signal the batcher sends its non-empty
\* partial batch exactly once and then closes hitsC, and the committer, who
\* makes no storage call with the cancelled context, is there to commit
\* every batch sent before the close. Stated on the states: the shutdown
\* send happens at most once and before the close; while the batcher waits
\* to send the partial batch the committer has not returned, unless the
\* storage failed; a committer that returned after the close has run a
\* transaction for every batch sent, and without a storage error every Hit
\* sent is committed.
C8_ShutdownFlush ==
    /\ Cardinality({i \in 1..Len(sent) : sent[i].why = "shutdown"}) <= 1
    /\ (hitsCClosed /\ hits # <<>>)
          => (sent # <<>> /\ sent[Len(sent)] = [hits |-> hits, why |-> "shutdown"])
    /\ (bpc = "sendDone" /\ ~storageErr) => cpc \notin {"failed", "done"}
    /\ cpc = "done"
          => /\ hitsCClosed
             /\ Len(txlog) = Len(sent)
             /\ \A i \in 1..Len(sent) : txlog[i].hits = sent[i].hits
             /\ ~storageErr =>
                   \A i \in 1..Len(sent) :
                       \A k \in 1..Len(sent[i].hits) :
                           sent[i].hits[k].id \in CommittedIds

\* C9 (as claimed): after the cancellation the batcher, the committer and
\* DatabaseWriter all terminate. Stated on the states: once ctx is cancelled,
\* either both goroutines have returned or one of them can take a step.
C9_TerminatesAfterCancel ==
    ctxDone => (WriterReturned \/ ENABLED WriterStep)

\* the database after the transactions of a log: the rows of the batches
\* whose transaction committed, and nothing else
RECURSIVE CommittedRows(_)
CommittedRows(log) ==
    IF log = <<>> THEN EmptyDb
    ELSE LET before == CommittedRows(SubSeq(log, 1, Len(log) - 1))
             last == log[Len(log)]
         IN  IF last.ok THEN InsertHits(before, last.hits) ELSE before

\* C10: a batch commits all of its rows or none: the database always holds
\* exactly the hit and user rows of the batches whose transaction committed,
\* in order; a failed transaction is only recorded (logged) and the committer
\* stays in its loop, which it leaves only when hitsC is closed.
C10_AllOrNothing ==
    /\ db = CommittedRows(txlog)
    /\ txlog # <<>> => cpc \in {"recv", "tx", "done"}
    /\ cpc = "done" => hitsCClosed

C10_Witness ==
    /\ Len(txlog) = 2
    /\ ~txlog[1].ok /\ Len(txlog[1].hits) = 2
    /\ txlog[2].ok
    /\ db.hits = Ids(txlog[2].hits)
    /\ cpc = "recv"

\* C25 (as claimed): shutdown ordering. State.Save runs only after the
\* committer has returned, having committed every batch the batcher had to
\* hand over.
C25_PersistAfterDrain ==
    saveLog.done => (saveLog.cpc = "done" /\ saveLog.uncommitted = 0)

\* C26: commit order. The rows of a committed batch are inserted in the
\* order the batcher received the Hits (the order of their ids), the
\* committer's transactions are the batches in the order the batcher sent
\* them, and so the hit rows are in the order the batcher received the Hits.
C26_CommitOrder ==
    /\ \A i \in 1..(Len(db.hits) - 1) : db.hits[i] < db.hits[i + 1]
    /\ Len(txlog) <= Len(sent)
    /\ \A k \in 1..Len(txlog) : txlog[k].hits = sent[k].hits
    /\ \A k \in 1..Len(sent) :
          \A i \in 1..(Len(sent[k].hits) - 1) :
             sent[k].hits[i].id < sent[k].hits[i + 1].id

C26_Witness ==
    /\ Len(txlog) = 2
    /\ txlog[1].ok
    /\ txlog[2].ok
    /\ Len(txlog[1].hits) = 2
    /\ db.hits = <<1, 2, 3>>


----------------------------------------------------------------------------
(* Claims about identities, checked under SpecUsers. *)

\* a dbInsertUser call was made and returned a user_id
Resolved == uRes.kind \in {"insert", "seen", "rollover"}

\* the rows of a table whose identifier is id
RowsWith(us, id) == {i \in 1..Len(us) : us[i].ident = id}

\* C11: user rollover. When dbInsertUser is called with (curr, prev), a row
\* has identifier prev and no row has identifier curr, that row's identifier
\* becomes curr, its user_id is returned, no row is added and no other row
\* changes.
C11_Rollover ==
    (uRes.kind # "none"
       /\ RowsWith(uRes.before, uRes.hit.prev) # {}
       /\ RowsWith(uRes.before, uRes.hit.cur) = {})
    => /\ uRes.kind = "rollover"
       /\ Len(uRes.after) = Len(uRes.before)
       /\ \A i \in 1..Len(uRes.before) :
             IF uRes.before[i].ident = uRes.hit.prev
             THEN /\ uRes.after[i].ident = uRes.hit.cur
                  /\ uRes.uid = i
             ELSE uRes.after[i] = uRes.before[i]

C11_Witness ==
    /\ uRes.kind = "rollover"
    /\ RowsWith(uRes.before, uRes.hit.prev) = {uRes.uid}
    /\ RowsWith(uRes.before, uRes.hit.cur) = {}
    /\ RowsWith(uRes.after, uRes.hit.cur) = {uRes.uid}

\* C12: first sighting. When no row has identifier curr or prev, exactly
\* one row is added, its identifier is curr, its new user_id is returned,
\* and the rows that existed are unchanged.
C12_FirstSighting ==
    (uRes.kind # "none"
       /\ RowsWith(uRes.before, uRes.hit.prev) = {}
       /\ RowsWith(uRes.before, uRes.hit.cur) = {})
    => /\ uRes.kind = "insert"
       /\ Len(uRes.after) = Len(uRes.before) + 1
       /\ SubSeq(uRes.after, 1, Len(uRes.before)) = uRes.before
       /\ uRes.after[Len(uRes.after)].ident = uRes.hit.cur
       /\ uRes.uid = Len(uRes.after)
       /\ uRes.uid \notin 1..Len(uRes.before)

C12_Witness ==
    /\ uRes.kind = "insert"
    /\ Len(uRes.before) >= 1
    /\ RowsWith(uRes.before, uRes.hit.prev) = {}
    /\ RowsWith(uRes.before, uRes.hit.cur) = {}
    /\ RowsWith(uRes.after, uRes.hit.cur) = {uRes.uid}

\* C13: repeat sighting. When the row dbInsertUser found has identifier curr,
\* it returns that row's user_id and sets its last_seen to now; identifier
\* and first_seen of every row, every other row, and the number of rows are
\* unchanged.
C13_RepeatSighting ==
    (uRes.kind # "none" /\ uRes.pick # 0
       /\ uRes.before[uRes.pick].ident = uRes.hit.cur)
    => /\ uRes.kind = "seen"
       /\ uRes.uid = uRes.pick
       /\ Len(uRes.after) = Len(uRes.before)
       /\ \A i \in 1..Len(uRes.before) :
             /\ uRes.after[i].ident = uRes.before[i].ident
             /\ uRes.after[i].first = uRes.before[i].first
             /\ i # uRes.pick => uRes.after[i] = uRes.before[i]
       /\ uRes.after[uRes.pick].last = uRes.at

C13_Witness ==
    /\ uRes.kind = "seen"
    /\ uRes.before[uRes.pick].ident = uRes.hit.cur
    /\ uRes.after[uRes.pick].last > uRes.before[uRes.pick].last
    /\ uRes.after[uRes.pick].first < uRes.at

\* C14 (as claimed): recognition window. A Hit of a client fingerprinted
\* after exactly one rotation since the client's last committed Hit was
\* fingerprinted resolves to the same user_id; one fingerprinted after two
\* or more rotations never resolves to that user_id.
C14_RecognitionWindow ==
    (Resolved /\ uRes.priorUid # 0)
    => /\ uRes.hit.rots = uRes.prior.rots + 1 => uRes.uid = uRes.priorUid
       /\ uRes.hit.rots >= uRes.prior.rots + 2 => uRes.uid # uRes.priorUid

\* C15 (as claimed): the README's promise. Once the salt has been rotated, a
\* Hit from the same client is not linked to the user row its last committed
\* Hit was linked to before the rotation.
C15_UnlinkedAfterRotation ==
    (Resolved /\ uRes.priorUid # 0 /\ uRes.hit.rots > uRes.prior.rots)
    => uRes.uid # uRes.priorUid

\* C16: retention sweep. Right after dbDeleteExpired with the window
\* 2 * SaltRotationDuration commits, every row whose last_seen is older than
\* the window has a null identifier, and no row whose last_seen is within the
\* window has a changed identifier; nothing else of any row changes.
C16_SweepPostcondition ==
    uSweep.done
    => /\ Len(uSweep.after) = Len(uSweep.before)
       /\ \A i \in 1..Len(uSweep.before) :
             /\ uSweep.at - uSweep.before[i].last > 2 * SaltRotationDuration
                   => uSweep.after[i].ident = NullIdent
             /\ uSweep.at - uSweep.before[i].last <= 2 * SaltRotationDuration
                   => uSweep.after[i].ident = uSweep.before[i].ident
             /\ uSweep.after[i].first = uSweep.before[i].first
             /\ uSweep.after[i].last = uSweep.before[i].last

C16_Witness ==
    /\ uSweep.done
    /\ \E i \in 1..Len(uSweep.before) :
          /\ uSweep.before[i].ident # NullIdent
          /\ uSweep.after[i].ident = NullIdent
    /\ \E j \in 1..Len(uSweep.before) :
          /\ uSweep.before[j].ident # NullIdent
          /\ uSweep.after[j].ident = uSweep.before[j].ident

\* C17 (as claimed): expired users cannot be re-linked. dbInsertUser never
\* matches a Hit to a row whose last_seen is older than
\* 2 * SaltRotationDuration, restarts included.
C17_NoRelinkAfterExpiry ==
    uRes.kind \in {"seen", "rollover"}
    => uRes.at - uRes.before[uRes.pick].last <= 2 * SaltRotationDuration

\* C23: salt rotation. Every Rotate() that succeeds, in the rotation
\* goroutine or in Salts.Load, leaves previous equal to the value current
\* held just before, current equal to a newly generated value and
\* lastRotated equal to the time of the call; so once a rotation happened
\* previous is the value that current replaced.
C23_RotateInvariant ==
    /\ [][rotN' # rotN
            => /\ rotN' = rotN + 1
               /\ salts'.Previous = salts.Current
               /\ salts'.Current > salts.Current
               /\ salts'.Current > salts.Previous
               /\ salts'.LastRotated = uNow]_vars
    /\ [](rotN >= 1 => salts.Previous + 1 = salts.Current)

C23_Witness ==
    /\ uUp
    /\ rotN >= 2
    /\ rpc = "sweep"
    /\ salts.LastRotated = uNow
    /\ salts.Previous + 1 = salts.Current

\* C24: Salts.Load. Without persisted state both salts are generated and
\* lastRotated is now; persisted salts older than the rotation duration are
\* rotated exactly once, previous becoming the persisted current; persisted
\* salts younger than the rotation duration are left as they are.
C24_SaltsLoad ==
    [][Restart
        => /\ saved = NoSalts
                => /\ salts'.Current # NoSalts.Current
                   /\ salts'.Previous # NoSalts.Previous
                   /\ salts'.Current # salts'.Previous
                   /\ salts'.LastRotated = uNow
                   /\ rotN' = rotN
           /\ (saved # NoSalts /\ uNow - saved.LastRotated > SaltRotationDuration)
                => /\ salts'.Previous = saved.Current
                   /\ salts'.Current > saved.Current
                   /\ salts'.LastRotated = uNow
                   /\ rotN' = rotN + 1
           /\ (saved # NoSalts /\ uNow - saved.LastRotated < SaltRotationDuration)
                => /\ salts' = saved
                   /\ rotN' = rotN]_vars

\* a process started with salts older than the rotation duration: the last
\* rotation is the one Salts.Load made
C24_Witness ==
    /\ uUp
    /\ saved # NoSalts
    /\ uNow - saved.LastRotated > SaltRotationDuration
    /\ rotN > uRot
    /\ salts.Previous = saved.Current
    /\ salts.Current = saved.Current + 1
    /\ salts.LastRotated = uNow

\* at most one row holds any given non-null identifier
UniqueIdentifier ==
    \A i, j \in 1..Len(users) :
       (i # j /\ users[i].ident # NullIdent) => users[i].ident # users[j].ident

\* C28 (as claimed): no user duplication for one fingerprint. A Hit that
\* carries the same (current, previous) pair as an earlier Hit for which a
\* user row was created does not make dbInsertUser create another row; and
\* at most one row holds any given non-null identifier.
C28_NoDuplicateUser ==
    /\ UniqueIdentifier
    /\ uRes.kind = "insert"
          => <<uRes.hit.cur, uRes.hit.prev>> \notin uRes.priorMade

\* C29: rotate, then sweep. The rotation goroutine calls dbDeleteExpired
\* only as its next step after a Rotate() (no other rotation in between),
\* it calls it after every Rotate() it made, and the window it passes is
\* always 2 * SaltRotationDuration.
C29_RotateThenSweep ==
    /\ [][uSweep' # uSweep
            => /\ rpc = "sweep"
               /\ uRot = rotN
               /\ uSweep'.rot = uRot]_vars
    /\ [](rpc # "sweep" => uSweep.rot = uRot)
    /\ [](uSweep.rot # 0 => uSweep.window = 2 * SaltRotationDuration)

C29_Witness ==
    /\ uUp
    /\ rpc = "wait"
    /\ uSweep.done
    /\ uSweep.rot >= 2
    /\ uSweep.rot = uRot
    /\ uSweep.at = salts.LastRotated
    /\ uSweep.window = 2 * SaltRotationDuration

\* C30 (as claimed): background-loop resilience. After Rotate() or
\* dbDeleteExpired returned an error in the rotation goroutine, the
\* goroutine is still in its loop and the process is still running.
C30_LoopSurvivesErrors ==
    loopErr # "none" => (uUp /\ rpc \in {"wait", "sweep"})


----------------------------------------------------------------------------
(* Claims about locations, checked under SpecLocations. *)

\* the (country, subdivision, city, postal) tuple a node's ancestor chain
\* reconstructs
RECURSIVE NodeTuple(_, _)
NodeTuple(s, i) ==
    IF s[i].parent \notin 1..Len(s)
    THEN Location(s[i].country, s[i].subdivision, s[i].city, s[i].postal)
    ELSE LET up == NodeTuple(s, s[i].parent)
         IN  Location(Coalesce(s[i].country, up.country),
                      Coalesce(s[i].subdivision, up.subdivision),
                      Coalesce(s[i].city, up.city),
                      Coalesce(s[i].postal, up.postal))

\* the nodes of a table whose reconstructed tuple is req
NodesFor(s, req) == {i \in 1..Len(s) : NodeTuple(s, i) = req}

\* a request as setLocation builds it: country set, postal only with a city
WellFormed(req) == req.country # Null /\ (req.postal # Null => req.city # Null)

\* C18 (as claimed): for a well-formed request dbInsertLocation returns,
\* without error, the id of a node whose ancestor chain reconstructs exactly
\* the requested tuple; the rows that existed are unchanged and each row
\* inserted is parented on the node found or inserted before it.
C18_ReachesTuple ==
    (lRes.kind # "none" /\ WellFormed(lRes.req))
    => /\ lRes.kind = "ok"
       /\ lRes.id \in 1..Len(lRes.after)
       /\ NodeTuple(lRes.after, lRes.id) = lRes.req
       /\ SubSeq(lRes.after, 1, Len(lRes.before)) = lRes.before
       /\ \A i \in (Len(lRes.before) + 1)..Len(lRes.after) :
             lRes.after[i].parent =
                IF lRes.after[i].country # Null THEN Null
                ELSE IF i = Len(lRes.before) + 1 THEN lRes.found.id
                ELSE i - 1

\* C19 (as claimed): two calls in a row with the same tuple both return an
\* id, the same one, and the second call inserts no row.
C19_Idempotent ==
    (lPrev.kind # "none" /\ lRes.req = lPrev.req)
    => /\ lPrev.kind = "ok"
       /\ lRes.kind = "ok"
       /\ lRes.id = lPrev.id
       /\ lRes.after = lRes.before

\* C20: exact-match lookup. When a node whose reconstructed tuple equals the
\* request exists, dbInsertLocation returns the id of that node and inserts
\* nothing.
C20_ExactMatch ==
    (lRes.kind # "none" /\ lRes.req.country # Null
       /\ NodesFor(lRes.before, lRes.req) # {})
    => /\ lRes.kind = "ok"
       /\ NodesFor(lRes.before, lRes.req) = {lRes.id}
       /\ lRes.after = lRes.before

\* on the test's table: the city parented directly on country 2, named like
\* the city under country 1's subdivision
C20_Witness ==
    /\ lRes.kind = "ok"
    /\ lRes.before = TestLocations
    /\ lRes.req = Location(2, Null, 1, Null)
    /\ lRes.id = 9
    /\ lPrev.kind = "ok"
    /\ lPrev.req = Location(1, 1, 1, 1)
    /\ lPrev.id = 5

\* the request (country 1, subdivision 1, city 1, postal 1) and the table it
\* makes of CountryOnly
FullRequest == Location(1, 1, 1, 1)

FullChain ==
    << LocRow(Null, 1, Null, Null, Null),
       LocRow(1, Null, 1, Null, Null),
       LocRow(2, Null, Null, 1, Null),
       LocRow(3, Null, Null, Null, 1) >>

\* C21: location hierarchy. When only the country node exists, the request
\* (country, subdivision, city, postal) inserts exactly three rows, the
\* subdivision under the country, the city under the subdivision and the
\* postal under the city; a following request for (country, subdivision),
\* (country, subdivision, city) or the full tuple returns the id of the
\* matching row and inserts nothing.
C21_Hierarchy ==
    /\ \A c \in {lRes, lPrev} :
          (c.kind # "none" /\ c.before = CountryOnly /\ c.req = FullRequest)
          => /\ c.kind = "ok"
             /\ c.after = FullChain
             /\ c.id = 4
    /\ (lPrev.kind # "none" /\ lPrev.before = CountryOnly
           /\ lPrev.req = FullRequest)
       => /\ lRes.req = Location(1, 1, Null, Null)
                => lRes.kind = "ok" /\ lRes.id = 2 /\ lRes.after = FullChain
          /\ lRes.req = Location(1, 1, 1, Null)
                => lRes.kind = "ok" /\ lRes.id = 3 /\ lRes.after = FullChain
          /\ lRes.req = FullRequest
                => lRes.kind = "ok" /\ lRes.id = 4 /\ lRes.after = FullChain

C21_Witness ==
    /\ lPrev.kind = "ok"
    /\ lPrev.before = CountryOnly
    /\ lPrev.req = FullRequest
    /\ Len(lPrev.after) = Len(lPrev.before) + 3
    /\ lRes.req = Location(1, 1, 1, Null)
    /\ lRes.id = 3
    /\ lRes.after = lRes.before

\* C22: unknown location. dbInsertLocation called with a Location that has
\* no country returns a null id and no error, and the locations table is as
\* it was.
C22_UnknownLocation ==
    (lRes.kind # "none" /\ lRes.req.country = Null)
    => /\ lRes.kind = "ok"
       /\ lRes.id = Null
       /\ lRes.after = lRes.before

C22_Witness ==
    /\ lRes.kind = "ok"
    /\ lRes.req.country = Null
    /\ lRes.req.city # Null
    /\ lRes.id = Null
    /\ Len(lRes.before) > 0
    /\ lRes.after = lRes.before

----------------------------------------------------------------------------
(* Claims about the salts' lock, checked under SpecLock. *)

\* C27: consistent salt snapshot. Under any interleaving of
\* fingerprintRequest calls with Rotate, the two hashes fingerprintRequest
\* returns are keyed with a (Current, Previous) pair the salts held together
\* between two rotations.
C27_ConsistentSnapshot == sout \subseteq sepochs

\* a request holds the read lock between its two reads after a rotation, and
\* requests have returned the pairs of two periods
C27_Witness ==
    /\ srot.n >= 1
    /\ \E i \in 1..MaxReaders : sfp[i].pc = "keyedCurrent"
    /\ \E p, q \in sout : p # q

----------------------------------------------------------------------------
(* Further claims about identities, checked under SpecUsers. *)

\* C36: sweeper frame. A retention sweep deletes no user row and changes no
\* user_id, first_seen or last_seen; the only change it makes is to set an
\* identifier to null, so the user_id of every committed Hit still names a
\* row; it returns the number of rows it changed, zero included, and no
\* error.
C36_SweeperFrame ==
    /\ uSweep.done
        => /\ Len(uSweep.after) = Len(uSweep.before)
           /\ \A i \in 1..Len(uSweep.before) :
                 /\ [uSweep.after[i] EXCEPT !.ident = NullIdent]
                       = [uSweep.before[i] EXCEPT !.ident = NullIdent]
                 /\ uSweep.after[i].ident \in {uSweep.before[i].ident, NullIdent}
           /\ uSweep.n = Cardinality({i \in 1..Len(uSweep.before) :
                                        uSweep.after[i] # uSweep.before[i]})
           /\ ~uSweep.err
    /\ \A c \in 1..UserClients : uLast[c].uid \in 0..Len(users)

\* a sweep has just made anonymous the row of a client's last committed Hit
C36_Witness ==
    /\ uSweep.done
    /\ uSweep.n >= 1
    /\ uSweep.after = users
    /\ \E c \in 1..UserClients :
          /\ uLast[c].uid \in 1..Len(users)
          /\ uSweep.before[uLast[c].uid].ident # NullIdent
          /\ users[uLast[c].uid].ident = NullIdent

\* one row of us holds the Hit's current fingerprint and another row its
\* previous fingerprint
SplitMatch(us, h) ==
    \E i, j \in 1..Len(us) :
        i # j /\ us[i].ident = h.cur /\ us[j].ident = h.prev

\* C37 (as claimed): resolve never conflicts with itself across a rotation.
\* For no Hit sent to the committer does the users table hold its current
\* fingerprint in one row and its previous fingerprint in another, and
\* dbInsertUser's rewrite of the identifier never fails on the unique
\* constraint.
C37_NoSelfConflict ==
    /\ \A k \in 1..Len(uq) : ~SplitMatch(users, uq[k])
    /\ uRes.kind # "err"

----------------------------------------------------------------------------
(* Claims about events, checked under SpecEvents. *)

EventKinds == {PageLoad, PageView, PageHide}

\* C35 (as claimed): event kind validity. Every Hit NewHit accepted, enqueued
\* or committed, has an event kind in {l, v, h}; a payload whose event kind
\* is anything else, empty or missing is rejected as bad input and not
\* enqueued.
C35_EventKindValid ==
    /\ \A i \in 1..Len(evQ) : evQ[i] \in EventKinds
    /\ \A i \in 1..Len(evRows) : evRows[i] \in EventKinds
    /\ (evN > 0 /\ ~(evLast.payload.e.kind = "string"
                        /\ evLast.payload.e.str \in EventKinds))
          => (evLast.status = 400 /\ ~evLast.enqueued)

----------------------------------------------------------------------------
(* Further claims about the pipeline, checked under SpecPipe. *)

\* C34 (as claimed): handler enqueue does not hang. Every handleEvent call
\* that built a valid Hit completes its enqueue and responds, also when the
\* inbound queue is full or the batcher has stopped after the cancellation.
\* Stated on the states: while a handler is at its send, either the send can
\* complete or a goroutine of DatabaseWriter can still take a step.
C34_EnqueueCompletes == hwait # 0 => (ENABLED handleEvent \/ ENABLED WriterStep)

\* C38 (as claimed): the batcher never blocks for ever on the hand-off.
\* Whenever the batcher is at one of its sends on hitsC (size, timer or
\* shutdown flush) the committer is still running, so it will receive the
\* batch; also when the committer could not get its storage connection.
C38_HandoffReceived ==
    bpc \in {"sendDone", "sendTick", "sendFull"} => cpc \notin {"failed", "done"}

\* the ids of the Hits of the batches of a log of sends, in order
RECURSIVE SentIds(_)
SentIds(log) ==
    IF log = <<>> THEN <<>>
    ELSE SentIds(SubSeq(log, 1, Len(log) - 1)) \o Ids(log[Len(log)].hits)

\* the Hits the batcher holds that it has not sent: after the shutdown send
\* it holds none
Unsent == IF bpc \in {"close", "done"} /\ sent # <<>> /\ sent[Len(sent)].hits = hits
          THEN <<>>
          ELSE Ids(hits)

\* C39: exactly-once batching. The Hits the batcher has received from the
\* inbound queue are, in the order received and each exactly once, the Hits
\* of the batches it has sent followed by the Hits of the batch it is
\* filling; a batcher that has returned has sent them all or holds none;
\* every batch sent is non-empty and holds at most 256 Hits.
C39_ExactlyOnce ==
    /\ SentIds(sent) \o Unsent = [i \in 1..(nextId - Len(hitC)) |-> i]
    /\ \A i \in 1..Len(sent) :
          Len(sent[i].hits) >= 1 /\ Len(sent[i].hits) <= FlushSize
    /\ bpc = "done" => Unsent = <<>>

\* a full batch went by size, the Hit after it by the shutdown flush, and
\* the batcher has returned
C39_Witness ==
    /\ bpc = "done"
    /\ Len(sent) = 2
    /\ Len(sent[1].hits) = FlushSize
    /\ sent[1].why = "size"
    /\ Ids(sent[2].hits) = <<FlushSize + 1>>
    /\ sent[2].why = "shutdown"
    /\ hitC = <<>>

\* C40: the committer's assertions hold. In dbInsertUser the row the
\* identifier lookup returned carries the current or the previous
\* fingerprint of the Hit, so the final else branch is not taken; in
\* dbInsertLocation, for a request with a country, the location id is valid
\* at both checks. No call on the committer path ends in a panic.
C40_NoPanic ==
    /\ uRes.kind # "panic"
    /\ lRes.kind # "panic"
    /\ (uRes.kind \in {"seen", "rollover", "err"} =>
          uRes.before[uRes.pick].ident \in {uRes.hit.cur, uRes.hit.prev})
    /\ (lRes.kind = "ok" /\ lRes.req.country # Null =>
          lRes.id \in 1..Len(lRes.after))

\* a Hit after a rotation found its user by the previous fingerprint, and
\* its Location, complete, was found as the client's first Hit inserted it
C40_Witness ==
    /\ uRes.kind = "rollover"
    /\ uRes.before[uRes.pick].ident = uRes.hit.prev
    /\ lRes.kind = "ok"
    /\ lRes.req = Location(1, 1, 1, 1)
    /\ lRes.found.id = 4
    /\ lRes.id = 4
    /\ Len(locs) = 4

----------------------------------------------------------------------------
(* Further claims about locations, checked under SpecLocations. *)

\* row i of the table s is of exactly one kind
OneKind(row) ==
    Cardinality({k \in {"country", "subdivision", "city", "postal"} :
                    row[k] # Null}) = 1

\* the parent of a row that has one
ParentOf(s, row) == s[row.parent]

\* C32: location tree invariants. After any sequence of dbInsertLocation
\* calls every row sets exactly one of country, subdivision, city and postal;
\* the country rows are exactly the rows with no parent; a subdivision's
\* parent is a country, a city's a country or a subdivision, a postal's a
\* city; no two rows share a country code or a (parent, subdivision),
\* (parent, city) or (parent, postal) pair.
C32_TreeInvariants ==
    /\ \A i \in 1..Len(locs) :
          LET row == locs[i]
          IN  /\ OneKind(row)
              /\ (row.country # Null) <=> (row.parent = Null)
              /\ row.parent # Null => row.parent \in (1..Len(locs)) \ {i}
              /\ row.subdivision # Null => ParentOf(locs, row).country # Null
              /\ row.city # Null =>
                    \/ ParentOf(locs, row).country # Null
                    \/ ParentOf(locs, row).subdivision # Null
              /\ row.postal # Null => ParentOf(locs, row).city # Null
    /\ \A i, j \in 1..Len(locs) :
          i # j =>
            /\ ~(locs[i].country # Null /\ locs[i].country = locs[j].country)
            /\ \A k \in {"subdivision", "city", "postal"} :
                  ~(locs[i][k] # Null /\ locs[i][k] = locs[j][k]
                       /\ locs[i].parent = locs[j].parent)

\* three calls on the empty table: a full chain, a postal code asked for
\* directly under a country (refused) and a city directly under a country
C32_Witness ==
    /\ lN = 3
    /\ lPrev.kind = "err"
    /\ lPrev.req = Location(2, Null, Null, 1)
    /\ lRes.kind = "ok"
    /\ locs = << LocRow(Null, 1, Null, Null, Null),
                 LocRow(1, Null, 1, Null, Null),
                 LocRow(2, Null, Null, 1, Null),
                 LocRow(3, Null, Null, Null, 1),
                 LocRow(Null, 2, Null, Null, Null),
                 LocRow(5, Null, Null, 1, Null) >>

\* writer a won and writer b lost a race for the same missing node: their
\* transactions overlapped, they asked for the same known location, and a
\* inserted it
LostRace(a, b) ==
    /\ a # b
    /\ wtx[a].pc = "done" /\ wtx[b].pc = "done"
    /\ wtx[a].overlap \/ wtx[b].overlap
    /\ wtx[a].req = wtx[b].req
    /\ wtx[a].kind = "ok" /\ wtx[a].inserted > 0

C31_NoIOUnderLock == \A e \in sio : e.lock = "none"

====
